---- MODULE Spec2Model ----
(***************************************************************************)
(* Model of the request governor of the Figma mobile workflow:             *)
(*   - Cache          (utils/Cache.js, class Cache)                        *)
(*   - RateLimiter    (src/utils/RateLimiter.js, class RateLimiter)        *)
(*   - GlobalRateLimiter (src/utils/RateLimiter.js, the per-key registry)  *)
(*                                                                         *)
(* JavaScript runs every handler to completion on one thread, so each      *)
(* synchronous method (and the synchronous prefix of an async method up to *)
(* its first suspension) is one atomic action.  Date.now() is the variable *)
(* now; it never goes backwards and may stay the same over several calls.  *)
(* A JavaScript Map is modelled as the sequence of its <<key, value>>      *)
(* pairs in iteration (insertion) order.                                   *)
(***************************************************************************)
EXTENDS Integers, Sequences, FiniteSets, TLC

VARIABLES
    now,        \* Date.now(), in milliseconds
    cache,      \* the fields of the Cache instance
    ret,        \* the last Cache call: its name, key argument, return value
    ghostOrder, \* history: the present keys in the order they became present
    written,    \* history: per key it is kept for, the last set still in force
    calls,      \* history: the number of calls made so far
    inst,       \* the RateLimiter instances created so far, by identity 1, 2, ...
    made,       \* history: per instance, the registry key and options it was built for
    limiters,   \* GlobalRateLimiter.limiters: Map key -> instance identity
    pc,         \* per caller: "idle", or "waiting" in the timer of waitForToken
    on,         \* per caller: the instance whose waitForToken it last called
    wakeAt,     \* per waiting caller: the instant its timer is due
    waited,     \* per caller: the waitTime of its last rejection (0: admitted at once)
    admitted,   \* history: per instance, the timestamps of its admissions
    waits,      \* history: per instance, the number and the sum of the waits it scheduled
    removals,   \* history: the number of limiters removed from the registry
    rejects,    \* history: per caller, the rejections of its current waitForToken call
    req         \* per caller: the makeRequest / getFile call it is in

-----------------------------------------------------------------------------
(* Bounds of the model *)

MaxSizeOpt == 2      \* the maxSize option ranges over 1..MaxSizeOpt
MaxCalls   == 4      \* Cache calls explored in one run (bounds every counter)
NumCallers == 2      \* concurrent callers of the limiters
MaxAdmit   == 4      \* admissions explored per limiter
MaxRegCalls == 3     \* registry and limiter calls explored in one registry run
MaxLiveCalls == 4    \* waitForToken calls made in one run to completion
MaxFileCalls == 2    \* getFile calls explored in one run of the service
MaxOpsCalls == 4     \* registry, probe and reconfiguration calls explored in one run
MaxSplitCalls == 4   \* registry calls explored in one run with removals

Keys   == {"A", "B", "C"}     \* cache keys: non-empty strings (`file:...`)
Values == {"v1"}
Null   == "null"              \* JavaScript null / undefined
Strategies == {"lru", "fifo", "lfu"}

\* The instants at which calls are made.  With ttl = 1 s an entry written at
\* 0 expires at 1000 and one written at 1 expires at 1001: the grid offers calls
\* within one millisecond, one millisecond apart, at now = expiresAt (1001 for
\* an entry of instant 1) and at now > expiresAt (1001 for an entry of instant 0).
CacheClock == {0, 1, 1001}

-----------------------------------------------------------------------------
(* JavaScript Map and Array helpers *)

MapHas(m, k) == \E i \in 1..Len(m) : m[i][1] = k
MapIdx(m, k) == CHOOSE i \in 1..Len(m) : m[i][1] = k
MapGet(m, k) == m[MapIdx(m, k)][2]
MapSet(m, k, v) ==
    IF MapHas(m, k) THEN [m EXCEPT ![MapIdx(m, k)] = <<k, v>>]
                    ELSE Append(m, <<k, v>>)
MapDelete(m, k) == SelectSeq(m, LAMBDA e : e[1] # k)
MapKeys(m) == {m[i][1] : i \in 1..Len(m)}

ArrIncludes(a, k) == \E i \in 1..Len(a) : a[i] = k
\* indexOf + splice(index, 1): removes the first occurrence only
ArrRemoveFirst(a, k) ==
    IF ArrIncludes(a, k)
    THEN LET i == CHOOSE j \in 1..Len(a) :
                      a[j] = k /\ \A h \in 1..(j - 1) : a[h] # k
         IN  SubSeq(a, 1, i - 1) \o SubSeq(a, i + 1, Len(a))
    ELSE a

\* x || d: 0 (and an omitted number) is falsy, "" (and an omitted string) is falsy
JsOrNum(x, d) == IF x = 0 THEN d ELSE x
JsOrStr(x, d) == IF x = "" THEN d ELSE x

-----------------------------------------------------------------------------
(* Cache *)

CacheNew(options) ==
    [ maxSize        |-> JsOrNum(options.maxSize, 1000),
      ttl            |-> JsOrNum(options.ttl, 300),
      strategy       |-> JsOrStr(options.strategy, "lru"),
      data           |-> << >>,
      accessTimes    |-> << >>,
      accessCounts   |-> << >>,
      insertionOrder |-> << >>,
      stats          |-> [deletes |-> 0, evictions |-> 0] ]

\* delete(key)
delete(c, key) ==
    IF MapHas(c.data, key)
    THEN [c EXCEPT !.data           = MapDelete(@, key),
                   !.accessTimes    = MapDelete(@, key),
                   !.accessCounts   = MapDelete(@, key),
                   !.insertionOrder = ArrRemoveFirst(@, key),
                   !.stats.deletes  = @ + 1]
    ELSE c

RECURSIVE LRUScan(_, _, _, _)
LRUScan(m, i, oldestTime, oldestKey) ==
    IF i > Len(m) THEN oldestKey
    ELSE IF m[i][2] < oldestTime
         THEN LRUScan(m, i + 1, m[i][2], m[i][1])
         ELSE LRUScan(m, i + 1, oldestTime, oldestKey)

\* findLRUKey(): oldestTime starts at Date.now()
findLRUKey(c, t) == LRUScan(c.accessTimes, 1, t, Null)

\* variant: the newest insertion instead of the oldest
findFIFOKey_newest(c) ==
    IF Len(c.insertionOrder) = 0 THEN Null
    ELSE JsOrStr(c.insertionOrder[Len(c.insertionOrder)], Null)

\* findFIFOKey(): insertionOrder[0] || null
findFIFOKey(c) ==
    IF Len(c.insertionOrder) = 0 THEN Null
    ELSE JsOrStr(c.insertionOrder[1], Null)

RECURSIVE LFUScan(_, _, _, _)
LFUScan(m, i, lowestCount, leastUsedKey) ==
    IF i > Len(m) THEN leastUsedKey
    ELSE IF leastUsedKey = Null \/ m[i][2] < lowestCount   \* lowestCount = Infinity at first
         THEN LFUScan(m, i + 1, m[i][2], m[i][1])
         ELSE LFUScan(m, i + 1, lowestCount, leastUsedKey)

\* variant: count <= lowestCount, so the last of the tied entries wins
RECURSIVE LFUScanLast(_, _, _, _)
LFUScanLast(m, i, lowestCount, leastUsedKey) ==
    IF i > Len(m) THEN leastUsedKey
    ELSE IF leastUsedKey = Null \/ m[i][2] <= lowestCount
         THEN LFUScanLast(m, i + 1, m[i][2], m[i][1])
         ELSE LFUScanLast(m, i + 1, lowestCount, leastUsedKey)

findLFUKey_lastTie(c) == LFUScanLast(c.accessCounts, 1, 0, Null)

\* findLFUKey()
findLFUKey(c) == LFUScan(c.accessCounts, 1, 0, Null)

\* the switch of evict()
keyToEvict(c, t) ==
    CASE c.strategy = "lru"  -> findLRUKey(c, t)
      [] c.strategy = "fifo" -> findFIFOKey(c)
      [] c.strategy = "lfu"  -> findLFUKey(c)
      [] OTHER               -> findLRUKey(c, t)

\* evict()
evict(c, t) ==
    LET k == keyToEvict(c, t)
    IN  IF k # Null /\ k # ""
        THEN [delete(c, k) EXCEPT !.stats.evictions = @ + 1]
        ELSE c

\* variant: a set of a key that is present keeps the entry it finds
set_firstWriteWins(c, key, value, customTtl, t) ==
    LET expiresAt == t + JsOrNum(customTtl, c.ttl) * 1000
        c1 == IF Len(c.data) >= c.maxSize /\ ~MapHas(c.data, key)
              THEN evict(c, t) ELSE c
    IN  [c1 EXCEPT
          !.data = IF MapHas(@, key) THEN @
                   ELSE MapSet(@, key,
                          [value |-> value, expiresAt |-> expiresAt, createdAt |-> t]),
          !.accessTimes  = MapSet(@, key, t),
          !.accessCounts = MapSet(@, key, 0),
          !.insertionOrder =
              IF ArrIncludes(@, key) THEN @ ELSE Append(@, key)]

\* variant: every set into a full cache evicts, a set of a present key too
set_alwaysEvicts(c, key, value, customTtl, t) ==
    LET expiresAt == t + JsOrNum(customTtl, c.ttl) * 1000
        c1 == IF Len(c.data) >= c.maxSize
              THEN evict(c, t) ELSE c
    IN  [c1 EXCEPT
          !.data = MapSet(@, key,
                     [value |-> value, expiresAt |-> expiresAt, createdAt |-> t]),
          !.accessTimes  = MapSet(@, key, t),
          !.accessCounts = MapSet(@, key, 0),
          !.insertionOrder =
              IF ArrIncludes(@, key) THEN @ ELSE Append(@, key)]

\* set(key, value, customTtl); customTtl = 0 stands for an omitted argument
set(c, key, value, customTtl, t) ==
    LET expiresAt == t + JsOrNum(customTtl, c.ttl) * 1000
        c1 == IF Len(c.data) >= c.maxSize /\ ~MapHas(c.data, key)
              THEN evict(c, t) ELSE c
    IN  [c1 EXCEPT
          !.data = MapSet(@, key,
                     [value |-> value, expiresAt |-> expiresAt, createdAt |-> t]),
          !.accessTimes  = MapSet(@, key, t),
          !.accessCounts = MapSet(@, key, 0),
          !.insertionOrder =
              IF ArrIncludes(@, key) THEN @ ELSE Append(@, key)]

\* variant: the entry already counts as expired at the instant expiresAt
isExpired_inclusive(item, t) == t >= item.expiresAt

\* the expiry test shared by get, has, getWithMetadata and cleanup
isExpired(item, t) == t > item.expiresAt

\* cleanup(): the keys found expired, in the iteration order of data
expiredKeys(c, t) ==
    LET keys == [i \in 1..Len(c.data) |-> c.data[i][1]]
    IN  SelectSeq(keys, LAMBDA key : isExpired(MapGet(c.data, key), t))

\* expiredKeys.forEach(key => this.delete(key))
RECURSIVE deleteEach(_, _)
deleteEach(c, keys) ==
    IF keys = << >> THEN c
    ELSE deleteEach(delete(c, Head(keys)), Tail(keys))

\* variant: the sweep stops after the first expired key
cleanup_first(c, t) ==
    IF expiredKeys(c, t) = << >> THEN c
    ELSE delete(c, Head(expiredKeys(c, t)))

\* cleanup() at instant t
cleanup(c, t) == deleteEach(c, expiredKeys(c, t))

\* get(key): state after the call, and the value returned
getState(c, key, t) ==
    IF ~MapHas(c.data, key) THEN c
    ELSE IF isExpired(MapGet(c.data, key), t) THEN delete(c, key)
    ELSE [c EXCEPT !.accessTimes  = MapSet(@, key, t),
                   !.accessCounts = MapSet(@, key, MapGet(@, key) + 1)]

getValue(c, key, t) ==
    IF ~MapHas(c.data, key) THEN Null
    ELSE IF isExpired(MapGet(c.data, key), t) THEN Null
    ELSE MapGet(c.data, key).value

\* variant: has() refreshes the access metadata the way get() does
hasState_refreshing(c, key, t) ==
    IF ~MapHas(c.data, key) THEN c
    ELSE IF isExpired(MapGet(c.data, key), t) THEN delete(c, key)
    ELSE [c EXCEPT !.accessTimes  = MapSet(@, key, t),
                   !.accessCounts = MapSet(@, key, MapGet(@, key) + 1)]

\* has(key)
hasState(c, key, t) ==
    IF ~MapHas(c.data, key) THEN c
    ELSE IF isExpired(MapGet(c.data, key), t) THEN delete(c, key)
    ELSE c

hasValue(c, key, t) ==
    IF ~MapHas(c.data, key) THEN FALSE
    ELSE IF isExpired(MapGet(c.data, key), t) THEN FALSE
    ELSE TRUE

\* getWithMetadata(key)
getWithMetadataState(c, key, t) ==
    IF ~MapHas(c.data, key) THEN c
    ELSE IF isExpired(MapGet(c.data, key), t) THEN delete(c, key)
    ELSE [c EXCEPT !.accessTimes  = MapSet(@, key, t),
                   !.accessCounts = MapSet(@, key, MapGet(@, key) + 1)]

getWithMetadataValue(c, key, t) ==
    IF ~MapHas(c.data, key) THEN Null
    ELSE IF isExpired(MapGet(c.data, key), t) THEN Null
    ELSE LET item == MapGet(c.data, key)
         IN  [value        |-> item.value,
              createdAt    |-> item.createdAt,
              expiresAt    |-> item.expiresAt,
              accessCount  |-> MapGet(c.accessCounts, key) + 1,
              lastAccessed |-> t]

\* touch(key, customTtl)
touchState(c, key, customTtl, t) ==
    IF ~MapHas(c.data, key) THEN c
    ELSE [c EXCEPT
           !.data = MapSet(@, key,
                      [MapGet(@, key) EXCEPT !.expiresAt = t + JsOrNum(customTtl, c.ttl) * 1000]),
           !.accessTimes = MapSet(@, key, t)]

touchValue(c, key) == MapHas(c.data, key)

\* values(): Array.from(data.values()).map(item => item.value)
values(c) == [i \in 1..Len(c.data) |-> c.data[i][2].value]

\* entries(): Array.from(data.entries()).map(([key, item]) => [key, item.value])
entries(c) == [i \in 1..Len(c.data) |-> <<c.data[i][1], c.data[i][2].value>>]

\* size()
size(c) == Len(c.data)

-----------------------------------------------------------------------------
(* Cache: the state machine *)

cacheVars == <<cache, ret, ghostOrder, written, calls>>
rlVars == <<inst, made, limiters, pc, on, wakeAt, waited, admitted, waits, removals,
           rejects, req>>
vars == <<now, cacheVars, rlVars>>

CacheOptions ==
    [maxSize : 1..MaxSizeOpt, ttl : {1}, strategy : Strategies]

\* history: no set of the key is in force
NotWritten == [set |-> FALSE, value |-> Null, expiresAt |-> 0, sets |-> 0]

\* the limiter side while only the cache is exercised
NoLimiters ==
    /\ inst = << >> /\ made = << >> /\ limiters = << >>
    /\ pc = << >> /\ on = << >> /\ wakeAt = << >> /\ waited = << >>
    /\ admitted = << >> /\ waits = << >> /\ removals = 0
    /\ rejects = << >> /\ req = << >>

\* a fresh cache; the history of writes is kept for the keys of tracked
InitCacheWith(tracked) ==
    /\ now = 0
    /\ cache \in {CacheNew(o) : o \in CacheOptions}
    /\ ret = [op |-> "new", key |-> Null, val |-> Null]
    /\ ghostOrder = << >>
    /\ written = [k \in tracked |-> NotWritten]
    /\ calls = 0
    /\ NoLimiters

InitCache == InitCacheWith({})

\* history: keys that left data are dropped, a key that entered is appended
GhostNext ==
    ghostOrder' =
        LET kept  == SelectSeq(ghostOrder, LAMBDA k : MapHas(cache'.data, k))
            fresh == MapKeys(cache'.data) \ MapKeys(cache.data)
        IN  IF fresh = {} THEN kept ELSE Append(kept, CHOOSE k \in fresh : TRUE)

\* history of the call op(k, v): a set writes v with the expiry of the cache's
\* ttl (sets counts the sets of the key since its last write went out of
\* force), a touch renews that expiry, and the write is no longer in force
\* once the key was deleted, was found expired and removed, or was evicted by
\* the set of another key or removed by cleanup, clear or evict
WrittenNext(op, k, v) ==
    written' = [j \in DOMAIN written |->
        IF op = "set" /\ j = k
            THEN [set |-> TRUE, value |-> v, expiresAt |-> now + cache.ttl * 1000,
                  sets |-> written[j].sets + 1]
        ELSE IF ~written[j].set THEN NotWritten
        ELSE IF op = "delete" /\ j = k THEN NotWritten
        ELSE IF op = "touch" /\ j = k
            THEN [written[j] EXCEPT !.expiresAt = now + cache.ttl * 1000]
        ELSE IF /\ op \in {"get", "has", "getWithMetadata"} /\ j = k
                /\ now > written[j].expiresAt
            THEN NotWritten
        ELSE IF /\ op \in {"set", "cleanup", "clear", "evict"}
                /\ MapHas(cache.data, j) /\ ~MapHas(cache'.data, j)
            THEN NotWritten
        ELSE written[j]]

\* what every Cache call leaves alone, and the history it extends
CallFrame ==
    /\ GhostNext
    /\ calls' = calls + 1
    /\ calls' <= MaxCalls
    /\ UNCHANGED <<now, rlVars>>

Set(k, v) ==
    /\ cache' = set(cache, k, v, 0, now)
    /\ ret' = [op |-> "set", key |-> k, val |-> TRUE]
    /\ WrittenNext("set", k, v)
    /\ CallFrame

Get(k) ==
    /\ cache' = getState(cache, k, now)
    /\ ret' = [op |-> "get", key |-> k, val |-> getValue(cache, k, now)]
    /\ WrittenNext("get", k, Null)
    /\ CallFrame

Has(k) ==
    /\ cache' = hasState(cache, k, now)
    /\ ret' = [op |-> "has", key |-> k, val |-> hasValue(cache, k, now)]
    /\ WrittenNext("has", k, Null)
    /\ CallFrame

GetWithMetadata(k) ==
    /\ cache' = getWithMetadataState(cache, k, now)
    /\ ret' = [op |-> "getWithMetadata", key |-> k,
               val |-> getWithMetadataValue(cache, k, now)]
    /\ WrittenNext("getWithMetadata", k, Null)
    /\ CallFrame

Touch(k) ==
    /\ cache' = touchState(cache, k, 0, now)
    /\ ret' = [op |-> "touch", key |-> k, val |-> touchValue(cache, k)]
    /\ WrittenNext("touch", k, Null)
    /\ CallFrame

Delete(k) ==
    /\ cache' = delete(cache, k)
    /\ ret' = [op |-> "delete", key |-> k, val |-> MapHas(cache.data, k)]
    /\ WrittenNext("delete", k, Null)
    /\ CallFrame

ValuesCall ==
    /\ ret' = [op |-> "values", key |-> Null, val |-> values(cache)]
    /\ cache' = cache
    /\ WrittenNext("values", Null, Null)
    /\ CallFrame

EntriesCall ==
    /\ ret' = [op |-> "entries", key |-> Null, val |-> entries(cache)]
    /\ cache' = cache
    /\ WrittenNext("entries", Null, Null)
    /\ CallFrame

\* time passes between two calls
TickCache ==
    /\ \E t \in CacheClock : t > now /\ now' = t
    /\ ret' = [op |-> "tick", key |-> Null, val |-> Null]
    /\ UNCHANGED <<cache, ghostOrder, written, calls, rlVars>>

NextCache ==
    \/ \E k \in Keys, v \in Values : Set(k, v)
    \/ \E k \in Keys : Get(k)
    \/ \E k \in Keys : Has(k)
    \/ \E k \in Keys : GetWithMetadata(k)
    \/ \E k \in Keys : Touch(k)
    \/ \E k \in Keys : Delete(k)
    \/ ValuesCall
    \/ EntriesCall
    \/ TickCache

SpecCache == InitCache /\ [][NextCache]_vars

\* cleanup(), which the interval timer of the constructor calls every 60000 ms
\* and any caller may call at any instant
Cleanup ==
    /\ cache' = cleanup(cache, now)
    /\ ret' = [op |-> "cleanup", key |-> Null, val |-> Null]
    /\ WrittenNext("cleanup", Null, Null)
    /\ CallFrame

\* writes, reads, renewals and deletions with the sweep between them
NextSweep ==
    \/ \E k \in Keys, v \in Values : Set(k, v)
    \/ \E k \in Keys : Get(k)
    \/ \E k \in Keys : Touch(k)
    \/ \E k \in Keys : Delete(k)
    \/ Cleanup
    \/ TickCache

SpecSweep == InitCache /\ [][NextSweep]_vars

\* clear()
clear_dataOnly(c) ==
    [c EXCEPT !.data = << >>, !.stats.deletes = @ + Len(c.data)]
clear(c) ==
    [c EXCEPT !.data = << >>, !.accessTimes = << >>, !.accessCounts = << >>,
              !.insertionOrder = << >>, !.stats.deletes = @ + Len(c.data)]

\* setTTL(newTtl)
setTTL(c, newTtl) == [c EXCEPT !.ttl = newTtl]

\* setMaxSize(newMaxSize), its first statement
setMaxSize(c, newMaxSize) == [c EXCEPT !.maxSize = newMaxSize]

\* the condition of the while loop of setMaxSize
mustEvict_never(c) == FALSE
mustEvict(c) == Len(c.data) > c.maxSize

\* the keys and the arguments of the maintenance calls; a ttl argument of 0
\* given to set or touch stands for the argument left out as well
AdminKeys == {"A", "B"}
TtlArgs == {0, 2}
MaxSizeArgs == 0..MaxSizeOpt

\* setMaxSize is inside its while loop: no other call can begin (run to
\* completion), only the clock that each evict() reads moves on
Resizing == ret.op = "setMaxSize" /\ ret.val = "evicting"

SetFor(k, v, customTtl) ==
    /\ cache' = set(cache, k, v, customTtl, now)
    /\ ret' = [op |-> "set", key |-> k, val |-> TRUE]
    /\ WrittenNext("set", k, v)
    /\ CallFrame

TouchFor(k, customTtl) ==
    /\ cache' = touchState(cache, k, customTtl, now)
    /\ ret' = [op |-> "touch", key |-> k, val |-> touchValue(cache, k)]
    /\ WrittenNext("touch", k, Null)
    /\ CallFrame

SetTTL(newTtl) ==
    /\ cache' = setTTL(cache, newTtl)
    /\ ret' = [op |-> "setTTL", key |-> Null, val |-> Null]
    /\ WrittenNext("setTTL", Null, Null)
    /\ CallFrame

Clear ==
    /\ cache' = clear(cache)
    /\ ret' = [op |-> "clear", key |-> Null, val |-> Null]
    /\ WrittenNext("clear", Null, Null)
    /\ CallFrame

Evict ==
    /\ cache' = evict(cache, now)
    /\ ret' = [op |-> "evict", key |-> Null, val |-> Null]
    /\ WrittenNext("evict", Null, Null)
    /\ CallFrame

\* setMaxSize(newMaxSize) up to the first test of its loop
SetMaxSize(newMaxSize) ==
    /\ cache' = setMaxSize(cache, newMaxSize)
    /\ ret' = [op |-> "setMaxSize", key |-> Null,
               val |-> IF mustEvict(cache') THEN "evicting" ELSE Null]
    /\ WrittenNext("setMaxSize", Null, Null)
    /\ CallFrame

\* one iteration of the loop of setMaxSize: evict(), then the test again
EvictNext ==
    /\ Resizing
    /\ cache' = evict(cache, now)
    /\ ret' = [ret EXCEPT !.val = IF mustEvict(cache') THEN "evicting" ELSE Null]
    /\ WrittenNext("evict", Null, Null)
    /\ GhostNext
    /\ UNCHANGED <<now, calls, rlVars>>

\* every call that changes or reads the bookkeeping of the entries
NextAdmin ==
    \/ ~Resizing /\ \E k \in AdminKeys, v \in Values : Set(k, v)
    \/ ~Resizing /\ \E k \in AdminKeys : Get(k)
    \/ ~Resizing /\ \E k \in AdminKeys : Has(k)
    \/ ~Resizing /\ \E k \in AdminKeys : Touch(k)
    \/ ~Resizing /\ \E k \in AdminKeys : Delete(k)
    \/ ~Resizing /\ Clear
    \/ ~Resizing /\ Cleanup
    \/ ~Resizing /\ Evict
    \/ ~Resizing /\ \E n \in MaxSizeArgs : SetMaxSize(n)
    \/ EvictNext
    \/ TickCache

SpecAdmin == InitCache /\ [][NextAdmin]_vars

\* writes and renewals with and without a ttl of their own, between changes
\* of the ttl of the cache
NextTtl ==
    \/ \E k \in AdminKeys, v \in Values, s \in TtlArgs : SetFor(k, v, s)
    \/ \E k \in AdminKeys, s \in TtlArgs : TouchFor(k, s)
    \/ \E s \in TtlArgs : SetTTL(s)
    \/ \E k \in AdminKeys : Get(k)
    \/ TickCache

SpecTtl == InitCache /\ [][NextTtl]_vars

\* the same calls on two keys with two values to tell apart
RoundTripKeys == {"A", "B"}
RoundTripValues == {"v1", "v2"}

NextRoundTrip ==
    \/ \E k \in RoundTripKeys, v \in RoundTripValues : Set(k, v)
    \/ \E k \in RoundTripKeys : Get(k)
    \/ \E k \in RoundTripKeys : Has(k)
    \/ \E k \in RoundTripKeys : GetWithMetadata(k)
    \/ \E k \in RoundTripKeys : Touch(k)
    \/ \E k \in RoundTripKeys : Delete(k)
    \/ ValuesCall
    \/ EntriesCall
    \/ TickCache

InitRoundTrip == InitCacheWith(RoundTripKeys)

SpecRoundTrip == InitRoundTrip /\ [][NextRoundTrip]_vars

-----------------------------------------------------------------------------
(* RateLimiter *)

Min(a, b) == IF a < b THEN a ELSE b
Max(a, b) == IF a > b THEN a ELSE b

\* new RateLimiter(options) at instant t.  The constructor reads the options
\* requestsPerMinute and burstLimit only; windowSizeMs is set to 60000
\* whatever the options hold.  averageWaitTime is kept as an exact fraction.
RateLimiterNew(options, t) ==
    [ requestsPerMinute |-> JsOrNum(options.requestsPerMinute, 60),
      burstLimit        |-> JsOrNum(options.burstLimit, 10),
      windowSizeMs      |-> 60000,
      tokens            |-> JsOrNum(options.burstLimit, 10),
      lastRefill        |-> t,
      requests          |-> << >>,
      stats             |-> [totalRequests    |-> 0,
                             rejectedRequests |-> 0,
                             averageWaitTime  |-> [num |-> 0, den |-> 1]] ]

\* variant: the bucket is never refilled
refillTokens_never(l, t) == l

\* refillTokens(now): floor((timePassed / windowSizeMs) * burstLimit)
refillTokens(l, t) ==
    LET timePassed  == t - l.lastRefill
        tokensToAdd == (timePassed * l.burstLimit) \div l.windowSizeMs
    IN  IF tokensToAdd > 0
        THEN [l EXCEPT !.tokens = Min(l.burstLimit, l.tokens + tokensToAdd),
                       !.lastRefill = t]
        ELSE l

\* cleanOldRequests(now)
cleanOldRequests(l, t) ==
    LET cutoff == t - l.windowSizeMs
    IN  [l EXCEPT !.requests = SelectSeq(@, LAMBDA timestamp : timestamp > cutoff)]

\* variant: only the token bucket is consulted
canMakeRequest_tokensOnly(l) == l.tokens > 0

\* variant: only the sliding window is consulted
canMakeRequest_windowOnly(l) == Len(l.requests) < l.requestsPerMinute

\* canMakeRequest(now)
canMakeRequest(l) ==
    IF l.tokens <= 0 THEN FALSE
    ELSE IF Len(l.requests) >= l.requestsPerMinute THEN FALSE
    ELSE TRUE

\* variant: an admission takes no token
consumeToken_none(l) == l

\* consumeToken()
consumeToken(l) == [l EXCEPT !.tokens = Max(0, l.tokens - 1)]

\* variant: the wait has no floor of 100 ms
calculateWaitTime_noFloor(l, t) ==
    LET timeUntilNextToken ==
            IF l.tokens <= 0 THEN l.windowSizeMs \div l.burstLimit ELSE 0
        timeUntilWindowSlot ==
            IF Len(l.requests) >= l.requestsPerMinute
            THEN l.requests[1] + l.windowSizeMs - t ELSE 0
    IN  Max(timeUntilNextToken, timeUntilWindowSlot)

\* calculateWaitTime(now), in the whole milliseconds that pass on the clock of
\* Date.now() before the timer set with it can fire
calculateWaitTime(l, t) ==
    LET timeUntilNextToken ==
            IF l.tokens <= 0 THEN l.windowSizeMs \div l.burstLimit ELSE 0
        timeUntilWindowSlot ==
            IF Len(l.requests) >= l.requestsPerMinute
            THEN l.requests[1] + l.windowSizeMs - t ELSE 0
    IN  Max(Max(timeUntilNextToken, timeUntilWindowSlot), 100)

\* fractions in lowest terms (num >= 0, den > 0)
RECURSIVE Gcd(_, _)
Gcd(a, b) == IF b = 0 THEN a ELSE Gcd(b, a % b)
Fraction(n, d) ==
    LET g == Gcd(n, d) IN [num |-> n \div g, den |-> d \div g]

\* variant: the average is the last wait
updateAverageWaitTime_last(l, waitTime) ==
    [l EXCEPT !.stats.averageWaitTime = Fraction(waitTime, 1)]

\* updateAverageWaitTime(waitTime), called after rejectedRequests++:
\* ((averageWaitTime * (totalWaits - 1)) + waitTime) / totalWaits
updateAverageWaitTime(l, waitTime) ==
    LET totalWaits == l.stats.rejectedRequests
        avg == l.stats.averageWaitTime
    IN  [l EXCEPT !.stats.averageWaitTime =
            Fraction(avg.num * (totalWaits - 1) + waitTime * avg.den,
                     avg.den * totalWaits)]

\* waitForToken(), the synchronous part of one attempt at instant t:
\* the limiter after refill and prune, ...
prepared(l, t) == cleanOldRequests(refillTokens(l, t), t)

\* ... whether the attempt is admitted, ...
attemptAdmits(l, t) == canMakeRequest(prepared(l, t))

\* ... the wait it is given when it is not, ...
attemptWait(l, t) == calculateWaitTime(prepared(l, t), t)

\* ... and the limiter it leaves
attemptState(l, t) ==
    LET l1 == prepared(l, t)
    IN  IF canMakeRequest(l1)
        THEN [consumeToken(l1) EXCEPT !.requests = Append(@, t),
                                      !.stats.totalRequests = @ + 1]
        ELSE updateAverageWaitTime(
                 [l1 EXCEPT !.stats.rejectedRequests = @ + 1],
                 calculateWaitTime(l1, t))

\* variant: the probe takes what an admission attempt takes
canMakeRequestNowState_consuming(l, t) == attemptState(l, t)

\* canMakeRequestNow(): the limiter it leaves and the boolean it returns
canMakeRequestNowState(l, t) == cleanOldRequests(refillTokens(l, t), t)
canMakeRequestNowValue(l, t) == canMakeRequest(canMakeRequestNowState(l, t))

\* reset() at instant t
reset(l, t) ==
    [l EXCEPT !.tokens = l.burstLimit,
              !.lastRefill = t,
              !.requests = << >>,
              !.stats = [totalRequests    |-> 0,
                         rejectedRequests |-> 0,
                         averageWaitTime  |-> [num |-> 0, den |-> 1]]]

\* variant: the tokens are not clamped to a lowered burstLimit
updateLimits_noClamp(l, options) ==
    LET l1 == IF "requestsPerMinute" \in DOMAIN options
              THEN [l EXCEPT !.requestsPerMinute = options.requestsPerMinute] ELSE l
    IN  IF "burstLimit" \in DOMAIN options
        THEN [l1 EXCEPT !.burstLimit = options.burstLimit] ELSE l1

\* variant: a new burstLimit fills the bucket
updateLimits_refilling(l, options) ==
    LET l1 == IF "requestsPerMinute" \in DOMAIN options
              THEN [l EXCEPT !.requestsPerMinute = options.requestsPerMinute] ELSE l
    IN  IF "burstLimit" \in DOMAIN options
        THEN [l1 EXCEPT !.burstLimit = options.burstLimit,
                        !.tokens = options.burstLimit]
        ELSE l1

\* updateLimits(options); an option that is undefined is a field the record
\* options does not have
updateLimits(l, options) ==
    LET l1 == IF "requestsPerMinute" \in DOMAIN options
              THEN [l EXCEPT !.requestsPerMinute = options.requestsPerMinute] ELSE l
    IN  IF "burstLimit" \in DOMAIN options
        THEN [l1 EXCEPT !.burstLimit = options.burstLimit,
                        !.tokens = Min(l1.tokens, options.burstLimit)]
        ELSE l1

-----------------------------------------------------------------------------
(* GlobalRateLimiter *)

\* variant: a limiter is constructed on every lookup
needsNewLimiter_always(m, key) == TRUE

\* getLimiter(): if (!this.limiters.has(key))
needsNewLimiter(m, key) == ~MapHas(m, key)

\* getLimiter(key, options): the instances, the registry and the instance returned
getLimiterInst(key, options, t) ==
    IF needsNewLimiter(limiters, key)
    THEN Append(inst, RateLimiterNew(options, t)) ELSE inst

getLimiterMap(key) ==
    IF needsNewLimiter(limiters, key)
    THEN MapSet(limiters, key, Len(inst) + 1) ELSE limiters

getLimiterId(key) == MapGet(getLimiterMap(key), key)

\* variant: the limiter stays registered
removeLimiter_keeps(m, key) == m

\* removeLimiter(key)
removeLimiter(m, key) == MapDelete(m, key)

\* RateLimiter.getStatus() at instant t, on the limiter after refill and prune
getStatus(l, t) ==
    [ tokensAvailable      |-> l.tokens,
      maxTokens            |-> l.burstLimit,
      requestsInWindow     |-> Len(l.requests),
      maxRequestsPerWindow |-> l.requestsPerMinute,
      windowSizeMs         |-> l.windowSizeMs,
      canMakeRequest       |-> canMakeRequest(l),
      estimatedWaitTime    |-> IF canMakeRequest(l) THEN 0 ELSE calculateWaitTime(l, t) ]

\* RateLimiter.getStats() at instant t, on the limiter after refill and prune;
\* successRate is kept as the fraction it is computed from
getStats(l, t) ==
    [ totalRequests    |-> l.stats.totalRequests,
      rejectedRequests |-> l.stats.rejectedRequests,
      averageWaitTime  |-> l.stats.averageWaitTime,
      currentStatus    |-> getStatus(l, t),
      successRate      |->
          IF l.stats.totalRequests > 0
          THEN [num |-> (l.stats.totalRequests - l.stats.rejectedRequests) * 100,
                den |-> l.stats.totalRequests]
          ELSE [num |-> 100, den |-> 1] ]

-----------------------------------------------------------------------------
(* Limiters and their callers: the state machine *)

Callers == 1..NumCallers

\* the instants at which limiter calls are made and timers fire
RLClock == {0, 1000, 20000, 30000, 59950, 60000, 80000}
RegClock == {0, 60000}

\* options given to new RateLimiter(...); 0 stands for an option left out
BurstOptions == [requestsPerMinute |-> 3, burstLimit |-> 3, windowSizeMs |-> 1000]
RLOptions ==
    { BurstOptions,
      [requestsPerMinute |-> 2, burstLimit |-> 3, windowSizeMs |-> 0],
      [requestsPerMinute |-> 0, burstLimit |-> 2, windowSizeMs |-> 0] }

RegKeys == {"files", "images"}
\* no configuration supplied: getLimiter(key), options = {}
NoOptions == [requestsPerMinute |-> 0, burstLimit |-> 0, windowSizeMs |-> 0]
RegOptions ==
    { [requestsPerMinute |-> 1, burstLimit |-> 2, windowSizeMs |-> 0],
      [requestsPerMinute |-> 0, burstLimit |-> 1, windowSizeMs |-> 0] }
\* the calls made with and without a configuration
MisuseOptions ==
    { [requestsPerMinute |-> 1, burstLimit |-> 2, windowSizeMs |-> 0],
      NoOptions }

\* the cache side while only limiters are exercised
NoCache ==
    /\ cache = CacheNew([maxSize |-> 1000, ttl |-> 300, strategy |-> ""])
    /\ ret = [op |-> "new", key |-> Null, val |-> Null]
    /\ ghostOrder = << >>
    /\ written = << >>
    /\ calls = 0

\* what requestFn() can answer: a response, returned or carried by a thrown
\* error, or a thrown error without a response (status 0).  retryAfter is
\* the value of the Retry-After header, "" when the header is missing.
Answer(thrown, hasResponse, status, retryAfter) ==
    [thrown |-> thrown, hasResponse |-> hasResponse,
     status |-> status, retryAfter |-> retryAfter]
NoAnswer == Answer(FALSE, FALSE, 0, "")

\* an instance that has scheduled no wait yet
NoWaits == [count |-> 0, sum |-> 0]

\* a caller that is in no makeRequest / getFile call
NoOutcome == [kind |-> "none", val |-> NoAnswer]
NoRequest ==
    [ key     |-> Null,       \* getFile: the cache key of the call
      out     |-> NoOutcome,  \* how the call ended: returned or thrown, and what
      last    |-> NoAnswer,   \* history: what the transport answered last
      respAt  |-> 0,          \* history: the instant of that answer
      answers |-> 0,          \* history: the answers the call got from the transport
      begun   |-> 0,          \* history: the getFile calls the caller has begun
      after   |-> Null,       \* history: what led to the current admission attempt
      permits |-> 0,          \* history: the admissions granted to the call
      sent    |-> 0 ]         \* history: the requests the call handed to the transport

IdleCallers ==
    /\ pc = [c \in Callers |-> "idle"]
    /\ wakeAt = [c \in Callers |-> 0]
    /\ waited = [c \in Callers |-> 0]
    /\ rejects = [c \in Callers |-> 0]
    /\ req = [c \in Callers |-> NoRequest]

\* one limiter built directly, as FigmaService does, and shared by the callers
InitRL ==
    /\ now = 0
    /\ \E o \in RLOptions :
          /\ inst = <<RateLimiterNew(o, 0)>>
          /\ made = <<[key |-> Null, options |-> o]>>
    /\ limiters = << >>
    /\ on = [c \in Callers |-> 1]
    /\ admitted = << << >> >>
    /\ waits = <<NoWaits>>
    /\ removals = 0
    /\ IdleCallers
    /\ NoCache

\* an empty registry
InitReg ==
    /\ now = 0
    /\ inst = << >> /\ made = << >> /\ limiters = << >>
    /\ on = [c \in Callers |-> 0]
    /\ admitted = << >>
    /\ waits = << >>
    /\ removals = 0
    /\ IdleCallers
    /\ NoCache

\* caller c runs the synchronous part of waitForToken() on instance i of the
\* instances ins; rejected, it sleeps in setTimeout(..., waitTime); admitted,
\* it goes on at the position next
AttemptThen(c, i, ins, fresh, next) ==
    LET l   == ins[i]
        adm == attemptAdmits(l, now)
        w   == attemptWait(l, now)
    IN  /\ inst' = [ins EXCEPT ![i] = attemptState(l, now)]
        /\ on' = [on EXCEPT ![c] = i]
        /\ pc' = [pc EXCEPT ![c] = IF adm THEN next ELSE "waiting"]
        /\ wakeAt' = [wakeAt EXCEPT ![c] = IF adm THEN 0 ELSE now + w]
        /\ waited' = [waited EXCEPT ![c] =
                         IF ~adm THEN w ELSE IF fresh THEN 0 ELSE @]
        /\ rejects' = [rejects EXCEPT ![c] =
                          (IF fresh THEN 0 ELSE @) + (IF adm THEN 0 ELSE 1)]
        /\ admitted' =
              LET a == IF i > Len(admitted) THEN Append(admitted, << >>) ELSE admitted
              IN  [a EXCEPT ![i] = IF adm THEN Append(@, now) ELSE @]
        /\ waits' =
              LET s == IF i > Len(waits) THEN Append(waits, NoWaits) ELSE waits
              IN  [s EXCEPT ![i] = IF adm THEN @
                                  ELSE [count |-> @.count + 1, sum |-> @.sum + w]]
        /\ Len(admitted'[i]) <= MaxAdmit

\* a bare waitForToken() call: the caller is idle again once admitted
Attempt(c, i, ins, fresh) == AttemptThen(c, i, ins, fresh, "idle")

\* limiter.waitForToken() by a caller that holds the limiter
WaitForToken(c) ==
    /\ pc[c] = "idle"
    /\ on[c] # 0
    /\ Attempt(c, on[c], inst, TRUE)
    /\ UNCHANGED <<now, made, limiters, removals, req, cache, ret, ghostOrder, written>>

\* the timer of a rejected caller fires (at its due instant or later) and
\* waitForToken() runs again on the same instance
Retry(c) ==
    /\ pc[c] = "waiting"
    /\ now >= wakeAt[c]
    /\ Attempt(c, on[c], inst, FALSE)
    /\ UNCHANGED <<now, made, limiters, removals, req, cacheVars>>

\* registry.getLimiter(key, options)
GetLimiterCall(c, key, o) ==
    /\ pc[c] = "idle"
    /\ inst' = getLimiterInst(key, o, now)
    /\ limiters' = getLimiterMap(key)
    /\ made' = IF Len(inst') > Len(inst)
               THEN Append(made, [key |-> key, options |-> o]) ELSE made
    /\ admitted' = IF Len(inst') > Len(inst) THEN Append(admitted, << >>) ELSE admitted
    /\ waits' = IF Len(inst') > Len(inst) THEN Append(waits, NoWaits) ELSE waits
    /\ on' = [on EXCEPT ![c] = getLimiterId(key)]
    /\ UNCHANGED <<now, pc, wakeAt, waited, removals, rejects, req,
                   cache, ghostOrder, written>>

\* getLimiter in the runs that keep no record of the call
GetLimiter(c, key, o) == GetLimiterCall(c, key, o) /\ UNCHANGED ret

\* registry.waitForToken(key, options): getLimiter, then the first attempt
RegWaitForToken(c, key, o) ==
    /\ pc[c] = "idle"
    /\ limiters' = getLimiterMap(key)
    /\ made' = IF Len(getLimiterInst(key, o, now)) > Len(inst)
               THEN Append(made, [key |-> key, options |-> o]) ELSE made
    /\ Attempt(c, getLimiterId(key), getLimiterInst(key, o, now), TRUE)
    /\ UNCHANGED <<now, removals, req, cache, ret, ghostOrder, written>>

\* registry.getStatus(key): limiter ? limiter.getStatus() : null
GetStatus(key) ==
    /\ IF MapHas(limiters, key)
       THEN LET i == MapGet(limiters, key)
                l == prepared(inst[i], now)
            IN  /\ inst' = [inst EXCEPT ![i] = l]
                /\ ret' = [op |-> "getStatus", key |-> key, val |-> getStatus(l, now)]
       ELSE /\ inst' = inst
            /\ ret' = [op |-> "getStatus", key |-> key, val |-> Null]
    /\ UNCHANGED <<now, made, limiters, pc, on, wakeAt, waited, admitted, waits, removals,
                   rejects, req, cache, ghostOrder, written>>

\* registry.removeLimiter(key)
RemoveLimiter(key) ==
    /\ MapHas(limiters, key)
    /\ limiters' = removeLimiter(limiters, key)
    /\ removals' = removals + 1
    /\ UNCHANGED <<now, inst, made, pc, on, wakeAt, waited, admitted, waits, rejects, req,
                   cache, ret, ghostOrder, written>>

\* registry.clear()
ClearRegistry ==
    /\ Len(limiters) > 0
    /\ limiters' = << >>
    /\ removals' = removals + Len(limiters)
    /\ UNCHANGED <<now, inst, made, pc, on, wakeAt, waited, admitted, waits, rejects, req,
                   cache, ret, ghostOrder, written>>

\* time passes
TickRL ==
    /\ \E t \in RLClock : t > now /\ now' = t
    /\ UNCHANGED <<rlVars, cacheVars>>

TickReg ==
    /\ \E t \in RegClock : t > now /\ now' = t
    /\ UNCHANGED <<rlVars, cacheVars>>

\* a call in the limiter run, where calls are not counted
Uncounted == UNCHANGED calls

\* a call in the registry run, which explores MaxRegCalls calls
Counted == calls' = calls + 1 /\ calls' <= MaxRegCalls

NextRL ==
    \/ \E c \in Callers : WaitForToken(c) /\ Uncounted
    \/ \E c \in Callers : Retry(c)
    \/ TickRL

SpecRL == InitRL /\ [][NextRL]_vars

\* Runs to completion: finitely many waitForToken calls are made, and the
\* clock advances from one due timer to the next for as long as a caller
\* waits.  A timer may still fire late, after a later one.
LiveOptions ==
    { [requestsPerMinute |-> 1, burstLimit |-> 1, windowSizeMs |-> 0],
      [requestsPerMinute |-> 2, burstLimit |-> 3, windowSizeMs |-> 0],
      [requestsPerMinute |-> 0, burstLimit |-> 2, windowSizeMs |-> 0] }

\* the instant by which MaxLiveCalls calls are served, one per window at worst
LiveHorizon == 60000 * MaxLiveCalls

InitLive ==
    /\ now = 0
    /\ \E o \in LiveOptions :
          /\ inst = <<RateLimiterNew(o, 0)>>
          /\ made = <<[key |-> Null, options |-> o]>>
    /\ limiters = << >>
    /\ on = [c \in Callers |-> 1]
    /\ admitted = << << >> >>
    /\ waits = <<NoWaits>>
    /\ removals = 0
    /\ IdleCallers
    /\ NoCache

\* the due instants of the waiting callers that lie ahead
DueAhead == {wakeAt[c] : c \in {d \in Callers : pc[d] = "waiting" /\ wakeAt[d] > now}}

\* the clock reaches the next due timer
TickLive ==
    /\ DueAhead # {}
    /\ now' = CHOOSE t \in DueAhead : \A u \in DueAhead : t <= u
    /\ now' <= LiveHorizon
    /\ UNCHANGED <<rlVars, cacheVars>>

LiveCounted == calls' = calls + 1 /\ calls' <= MaxLiveCalls

NextLive ==
    \/ \E c \in Callers : WaitForToken(c) /\ LiveCounted
    \/ \E c \in Callers : Retry(c)
    \/ TickLive

\* the event loop runs every due timer, and time passes
SpecLive ==
    /\ InitLive /\ [][NextLive]_vars
    /\ WF_vars(TickLive)
    /\ \A c \in Callers : WF_vars(Retry(c))

NextReg ==
    \/ \E c \in Callers, key \in RegKeys, o \in RegOptions :
           GetLimiter(c, key, o) /\ Counted
    \/ \E c \in Callers, key \in RegKeys, o \in RegOptions :
           RegWaitForToken(c, key, o) /\ Counted
    \/ \E c \in Callers : WaitForToken(c) /\ Counted
    \/ \E c \in Callers : Retry(c)
    \/ \E key \in RegKeys : RemoveLimiter(key) /\ Counted
    \/ ClearRegistry /\ Counted
    \/ TickReg

SpecReg == InitReg /\ [][NextReg]_vars

\* the registry used with keys that may not be registered and with calls
\* that may supply no configuration
NextMisuse ==
    \/ \E c \in Callers, key \in RegKeys, o \in MisuseOptions :
           GetLimiter(c, key, o) /\ Counted
    \/ \E c \in Callers, key \in RegKeys, o \in MisuseOptions :
           RegWaitForToken(c, key, o) /\ Counted
    \/ \E c \in Callers : Retry(c)
    \/ \E key \in RegKeys : GetStatus(key) /\ Counted
    \/ \E key \in RegKeys : RemoveLimiter(key) /\ Counted
    \/ TickReg

SpecMisuse == InitReg /\ [][NextMisuse]_vars

-----------------------------------------------------------------------------
(* APIRateLimiter: makeRequest and handleRateLimitResponse *)

\* parseInt(retryAfter) for the header values used
ParseInt(str) ==
    CASE str = "0" -> 0
      [] str = "1" -> 1
      [] str = "2" -> 2

\* handleRateLimitResponse: status === 429 and a truthy Retry-After header
hasRetryHint(response) == response.status = 429 /\ response.retryAfter # ""

\* handleRateLimitResponse: parseInt(retryAfter) * 1000
hintWaitTime(response) == ParseInt(response.retryAfter) * 1000

\* variant: a retry hint also empties the bucket
handleRateLimitResponse_draining(l, response) ==
    IF hasRetryHint(response)
    THEN updateAverageWaitTime([l EXCEPT !.stats.rejectedRequests = @ + 1,
                                         !.tokens = 0],
                               hintWaitTime(response))
    ELSE l

\* handleRateLimitResponse(response): the limiter it leaves
handleRateLimitResponse(l, response) ==
    IF hasRetryHint(response)
    THEN updateAverageWaitTime([l EXCEPT !.stats.rejectedRequests = @ + 1],
                               hintWaitTime(response))
    ELSE l

\* variant: no thrown error counts as throttling
retriesError_never(e) == FALSE

\* makeRequest: if (response.status === 429)
retriesResponse(r) == r.status = 429

\* makeRequest, catch: if (error.response && error.response.status === 429)
retriesError(e) == e.hasResponse /\ e.status = 429

\* whether makeRequest handles the answer a and calls itself again
retries(a) == IF a.thrown THEN retriesError(a) ELSE retriesResponse(a)

Answers ==
    { Answer(FALSE, TRUE, 200, ""),    \* success
      Answer(FALSE, TRUE, 429, "2"),   \* throttled, retry after 2 s
      Answer(FALSE, TRUE, 429, ""),    \* throttled, no hint
      Answer(TRUE,  TRUE, 429, "2"),   \* the same two thrown as errors
      Answer(TRUE,  TRUE, 429, ""),
      Answer(TRUE,  TRUE, 500, ""),    \* a server error
      Answer(TRUE,  FALSE, 0, "") }    \* a network error, no response

APIOptions ==
    { [requestsPerMinute |-> 0, burstLimit |-> 1, windowSizeMs |-> 0],
      [requestsPerMinute |-> 1, burstLimit |-> 2, windowSizeMs |-> 0] }

APIClock == {0, 2000, 60000, 62000}

InitAPI ==
    /\ now = 0
    /\ \E o \in APIOptions :
          /\ inst = <<RateLimiterNew(o, 0)>>
          /\ made = <<[key |-> Null, options |-> o]>>
    /\ limiters = << >>
    /\ on = [c \in Callers |-> 1]
    /\ admitted = << << >> >>
    /\ waits = <<NoWaits>>
    /\ removals = 0
    /\ IdleCallers
    /\ NoCache

\* makeRequest begins with await this.waitForToken(); once admitted the
\* caller invokes requestFn().  why tells what led to this waitForToken call.
AwaitToken(c, why, r) ==
    LET adm == attemptAdmits(inst[1], now)
        n   == IF adm THEN 1 ELSE 0
    IN  /\ AttemptThen(c, 1, inst, TRUE, "calling")
        /\ req' = [req EXCEPT ![c] =
                      [r EXCEPT !.after = why, !.permits = @ + n, !.sent = @ + n]]

\* makeRequest(requestFn) is called
MakeRequest(c) ==
    /\ pc[c] = "idle"
    /\ AwaitToken(c, "call", NoRequest)
    /\ UNCHANGED <<now, made, limiters, removals, cacheVars>>

\* the timer of waitForToken fires inside makeRequest
RetryToken(c) ==
    /\ pc[c] = "waiting"
    /\ now >= wakeAt[c]
    /\ LET adm == attemptAdmits(inst[1], now)
           n   == IF adm THEN 1 ELSE 0
       IN  /\ AttemptThen(c, 1, inst, FALSE, "calling")
           /\ req' = [req EXCEPT ![c].permits = @ + n, ![c].sent = @ + n]
    /\ UNCHANGED <<now, made, limiters, removals, cacheVars>>

\* the answer a of the transport, as the call keeps it
Answered(c, a) ==
    [req[c] EXCEPT !.last = a, !.respAt = now, !.answers = @ + 1]

\* requestFn() answers and makeRequest ends: it returns the response, or
\* throws the error on
Settle(c, a) ==
    /\ pc[c] = "calling"
    /\ ~retries(a)
    /\ pc' = [pc EXCEPT ![c] = "idle"]
    /\ req' = [req EXCEPT ![c] =
                  [Answered(c, a) EXCEPT
                      !.out = [kind |-> IF a.thrown THEN "thrown" ELSE "returned",
                               val  |-> a]]]
    /\ UNCHANGED <<now, inst, made, limiters, on, wakeAt, waited, admitted, waits,
                   removals, rejects, cacheVars>>

\* requestFn() answers 429 with a retry hint: handleRateLimitResponse counts
\* a rejection and sleeps in setTimeout(resolve, waitTime)
Backoff(c, a) ==
    /\ pc[c] = "calling"
    /\ retries(a) /\ hasRetryHint(a)
    /\ inst' = [inst EXCEPT ![1] = handleRateLimitResponse(@, a)]
    /\ pc' = [pc EXCEPT ![c] = "backoff"]
    /\ wakeAt' = [wakeAt EXCEPT ![c] = now + hintWaitTime(a)]
    /\ req' = [req EXCEPT ![c] = Answered(c, a)]
    /\ UNCHANGED <<now, made, limiters, on, waited, admitted, waits,
                   removals, rejects, cacheVars>>

\* that timer fires and makeRequest calls itself
BackoffDone(c) ==
    /\ pc[c] = "backoff"
    /\ now >= wakeAt[c]
    /\ AwaitToken(c, "hint", req[c])
    /\ UNCHANGED <<now, made, limiters, removals, cacheVars>>

\* requestFn() answers 429 without a hint: handleRateLimitResponse returns a
\* resolved promise and makeRequest calls itself at once
RetryAtOnce(c, a) ==
    /\ pc[c] = "calling"
    /\ retries(a) /\ ~hasRetryHint(a)
    /\ AwaitToken(c, "nohint", Answered(c, a))
    /\ UNCHANGED <<now, made, limiters, removals, cacheVars>>

TickAPI ==
    /\ \E t \in APIClock : t > now /\ now' = t
    /\ UNCHANGED <<rlVars, cacheVars>>

NextAPI ==
    \/ \E c \in Callers : MakeRequest(c)
    \/ \E c \in Callers : RetryToken(c)
    \/ \E c \in Callers, a \in Answers : Settle(c, a)
    \/ \E c \in Callers, a \in Answers : Backoff(c, a)
    \/ \E c \in Callers : BackoffDone(c)
    \/ \E c \in Callers, a \in Answers : RetryAtOnce(c, a)
    \/ TickAPI

SpecAPI == InitAPI /\ [][NextAPI]_vars

\* makeRequest on a limiter with room for two callers at a time
HintOptions == { [requestsPerMinute |-> 2, burstLimit |-> 2, windowSizeMs |-> 0] }

InitHint ==
    /\ now = 0
    /\ \E o \in HintOptions :
          /\ inst = <<RateLimiterNew(o, 0)>>
          /\ made = <<[key |-> Null, options |-> o]>>
    /\ limiters = << >>
    /\ on = [c \in Callers |-> 1]
    /\ admitted = << << >> >>
    /\ waits = <<NoWaits>>
    /\ removals = 0
    /\ IdleCallers
    /\ NoCache

\* the transport answers with success or with 429 and a retry hint of 2 s
HintAnswers == { Answer(FALSE, TRUE, 200, ""), Answer(FALSE, TRUE, 429, "2") }

NextHint ==
    \/ \E c \in Callers : MakeRequest(c)
    \/ \E c \in Callers : RetryToken(c)
    \/ \E c \in Callers, a \in HintAnswers : Settle(c, a)
    \/ \E c \in Callers, a \in HintAnswers : Backoff(c, a)
    \/ \E c \in Callers : BackoffDone(c)
    \/ TickAPI

SpecHint == InitHint /\ [][NextHint]_vars

-----------------------------------------------------------------------------
(* FigmaService: getFile through cache, request interceptor and transport *)

FileKeys == {"abc", "xyz"}
\* response.data of a successful call: a JSON object, which is truthy
FileData == {"v1", "v2"}

\* getFile: `file:${fileKey}:${JSON.stringify(options)}`, options = {}
cacheKey(fileKey) == "file:" \o fileKey \o ":{}"

\* variant: no lookup counts as a hit
isHit_never(cached) == FALSE

\* getFile: if (cached)
isHit(cached) == cached # Null /\ cached # ""

\* the limiter of the service after n admissions at instant t
RECURSIVE AfterAdmissions(_, _, _)
AfterAdmissions(l, n, t) ==
    IF n = 0 THEN l ELSE AfterAdmissions(attemptState(l, t), n - 1, t)

\* requests the service has already made (getFileImages, which uses no
\* cache) at instant 0: none, or the whole burst of 10
PriorRequests == {0, 10}

GovClock == {0, 6000, 300001}

\* new FigmaService(): Cache({ttl: 300, maxSize: 1000}) and
\* RateLimiter({requestsPerMinute: 60}); admitted counts from here on
InitGov ==
    /\ now = 0
    /\ \E n \in PriorRequests :
          inst = <<AfterAdmissions(
                     RateLimiterNew([requestsPerMinute |-> 60, burstLimit |-> 0,
                                     windowSizeMs |-> 0], 0), n, 0)>>
    /\ made = <<[key |-> Null,
                 options |-> [requestsPerMinute |-> 60, burstLimit |-> 0,
                              windowSizeMs |-> 0]]>>
    /\ limiters = << >>
    /\ on = [c \in Callers |-> 1]
    /\ admitted = << << >> >>
    /\ waits = <<NoWaits>>
    /\ removals = 0
    /\ IdleCallers
    /\ NoCache

\* the histories of the Cache runs are not kept in the runs of the service
GovFrame == UNCHANGED <<now, made, limiters, removals, ghostOrder, written>>

\* a getFile call begins; MaxFileCalls of them are explored
FileCall == calls' = calls + 1 /\ calls' <= MaxFileCalls

\* getFile(fileKey) finds the file in the cache and returns it
GetFileHit(c, fileKey) ==
    LET k == cacheKey(fileKey)
        cached == getValue(cache, k, now)
    IN  /\ pc[c] = "idle"
        /\ isHit(cached)
        /\ cache' = getState(cache, k, now)
        /\ ret' = [op |-> "get", key |-> k, val |-> cached]
        /\ req' = [req EXCEPT ![c] =
                      [@ EXCEPT !.key = k, !.begun = @ + 1,
                                !.out = [kind |-> "returned", val |-> cached]]]
        /\ UNCHANGED <<inst, pc, on, wakeAt, waited, admitted, waits, rejects>>
        /\ FileCall
        /\ GovFrame

\* getFile(fileKey) misses and calls client.get(), whose request interceptor
\* awaits rateLimiter.waitForToken(); admitted, the request goes to the transport
GetFileMiss(c, fileKey) ==
    LET k == cacheKey(fileKey)
        cached == getValue(cache, k, now)
        adm == attemptAdmits(inst[1], now)
        n   == IF adm THEN 1 ELSE 0
    IN  /\ pc[c] = "idle"
        /\ ~isHit(cached)
        /\ cache' = getState(cache, k, now)
        /\ ret' = [op |-> "get", key |-> k, val |-> cached]
        /\ AttemptThen(c, 1, inst, TRUE, "calling")
        /\ req' = [req EXCEPT ![c] =
                      [@ EXCEPT !.key = k, !.begun = @ + 1, !.out = NoOutcome,
                                !.permits = @ + n, !.sent = @ + n]]
        /\ FileCall
        /\ GovFrame

\* the transport answers with the file: getFile caches it and returns it
Respond(c, data) ==
    /\ pc[c] = "calling"
    /\ cache' = set(cache, req[c].key, data, 0, now)
    /\ ret' = [op |-> "set", key |-> req[c].key, val |-> TRUE]
    /\ pc' = [pc EXCEPT ![c] = "idle"]
    /\ req' = [req EXCEPT ![c].out = [kind |-> "returned", val |-> data]]
    /\ UNCHANGED <<inst, on, wakeAt, waited, admitted, waits, rejects, calls>>
    /\ GovFrame

\* the transport fails: the response interceptor rejects, getFile throws
Fail(c) ==
    /\ pc[c] = "calling"
    /\ pc' = [pc EXCEPT ![c] = "idle"]
    /\ req' = [req EXCEPT ![c].out = [kind |-> "thrown", val |-> "error"]]
    /\ UNCHANGED <<inst, on, wakeAt, waited, admitted, waits, rejects, cache, ret, calls>>
    /\ GovFrame

TickGov ==
    /\ \E t \in GovClock : t > now /\ now' = t
    /\ UNCHANGED <<rlVars, cacheVars>>

NextGov ==
    \/ \E c \in Callers, f \in FileKeys : GetFileHit(c, f)
    \/ \E c \in Callers, f \in FileKeys : GetFileMiss(c, f)
    \/ \E c \in Callers : RetryToken(c)
    \/ \E c \in Callers, d \in FileData : Respond(c, d)
    \/ \E c \in Callers : Fail(c)
    \/ TickGov

SpecGov == InitGov /\ [][NextGov]_vars

-----------------------------------------------------------------------------
(* Construction: new Cache(options), new RateLimiter(options) *)

\* Options as a caller may write them, the invalid ones included.  Every
\* option is given; 0 is the number zero and "" the empty string.
AnyCacheOptions ==
    [maxSize : {-1, 0, 1, 2}, ttl : {-1, 0, 1}, strategy : Strategies \cup {"", "random"}]
AnyLimiterOptions ==
    [requestsPerMinute : {-1, 0, 1, 3}, burstLimit : {-1, 0, 1, 3}, windowSizeMs : {0}]

\* how a constructor ends: neither constructor holds a throw statement or a
\* call that can throw, so each returns the object it built
constructorOutcome(options) == "constructed"

\* the objects FigmaService builds for itself
InitNew ==
    /\ now = 0
    /\ inst = <<RateLimiterNew([requestsPerMinute |-> 60, burstLimit |-> 0,
                                windowSizeMs |-> 0], 0)>>
    /\ made = <<[key |-> Null,
                 options |-> [requestsPerMinute |-> 60, burstLimit |-> 0,
                              windowSizeMs |-> 0]]>>
    /\ limiters = << >>
    /\ on = [c \in Callers |-> 1]
    /\ admitted = << << >> >>
    /\ waits = <<NoWaits>>
    /\ removals = 0
    /\ IdleCallers
    /\ NoCache

\* new Cache(options)
NewCache(o) ==
    /\ cache' = CacheNew(o)
    /\ ret' = [op |-> "new Cache", key |-> o, val |-> constructorOutcome(o)]
    /\ ghostOrder' = << >>
    /\ written' = [k \in DOMAIN written |-> NotWritten]
    /\ UNCHANGED <<now, calls, rlVars>>

\* new RateLimiter(options)
NewRateLimiter(o) ==
    /\ inst' = <<RateLimiterNew(o, now)>>
    /\ made' = <<[key |-> Null, options |-> o]>>
    /\ admitted' = << << >> >>
    /\ waits' = <<NoWaits>>
    /\ ret' = [op |-> "new RateLimiter", key |-> o, val |-> constructorOutcome(o)]
    /\ UNCHANGED <<now, limiters, pc, on, wakeAt, waited, removals, rejects, req,
                   cache, ghostOrder, written, calls>>

NextNew ==
    \/ \E o \in AnyCacheOptions : NewCache(o)
    \/ \E o \in AnyLimiterOptions : NewRateLimiter(o)

SpecNew == InitNew /\ [][NextNew]_vars

-----------------------------------------------------------------------------
(* Properties of the Cache, checked under SpecCache *)

\* a step that is the call set(k, ...) of a key that is new to a full cache
SetsNewKeyIntoFull(k) ==
    /\ ret'.op = "set" /\ ret'.key = k
    /\ ~MapHas(cache.data, k)
    /\ size(cache) >= cache.maxSize

\* the keys after a step that evicted victim and inserted k
Replaced(victim, k) ==
    MapKeys(cache'.data) = (MapKeys(cache.data) \ {victim}) \cup {k}

\* C1: after every set call, size() <= maxSize (every strategy, every timing)
C1_SizeWithinMaxAfterSet ==
    ret.op = "set" => size(cache) <= cache.maxSize

\* C3 as stated: get(key) misses and removes the entry whenever
\* expiresAt <= now, the instant now = expiresAt included
C3_GetMissesAtOrAfterExpiry ==
    [][\A k \in Keys :
         ( /\ ret'.op = "get" /\ ret'.key = k
           /\ MapHas(cache.data, k)
           /\ MapGet(cache.data, k).expiresAt <= now )
         => (ret'.val = Null /\ ~MapHas(cache'.data, k))]_vars

\* C3 amended: get(key) misses and removes the entry whenever expiresAt < now;
\* at the instant now = expiresAt the entry is still live and its value returned
C3_GetMissesAfterExpiry ==
    [][\A k \in Keys :
         (ret'.op = "get" /\ ret'.key = k /\ MapHas(cache.data, k)) =>
         /\ MapGet(cache.data, k).expiresAt < now =>
                (ret'.val = Null /\ ~MapHas(cache'.data, k))
         /\ MapGet(cache.data, k).expiresAt = now =>
                (ret'.val = MapGet(cache.data, k).value /\ MapHas(cache'.data, k))]_vars

\* two calls were made, the second is a get that missed and the one deletion
\* so far happened: the get found the entry of the first call expired
C3_Witness ==
    /\ ret.op = "get" /\ ret.val = Null
    /\ calls = 2 /\ cache.stats.deletes = 1

\* C4: get, getWithMetadata, values() and entries() never return the value of
\* an entry whose expiry time has passed
C4_NoValuePastExpiry ==
    /\ (ret.op = "get" /\ ret.val # Null) =>
           ~(now > MapGet(cache.data, ret.key).expiresAt)
    /\ (ret.op = "getWithMetadata" /\ MapHas(cache.data, ret.key)) =>
           ~(now > ret.val.expiresAt)
    /\ ret.op = "values" =>
           \A i \in 1..Len(ret.val) : ~(now > cache.data[i][2].expiresAt)
    /\ ret.op = "entries" =>
           \A i \in 1..Len(ret.val) :
               ~(now > MapGet(cache.data, ret.val[i][1]).expiresAt)

\* C7: a new key set into a full LRU cache evicts an entry with the oldest
\* lastAccessedAt, at every timing of the calls
C7_LRUEvictsOldest ==
    [][\A k \in Keys :
         (cache.strategy = "lru" /\ SetsNewKeyIntoFull(k)) =>
         \E victim \in MapKeys(cache.data) :
             /\ \A j \in MapKeys(cache.data) :
                    MapGet(cache.accessTimes, victim) <= MapGet(cache.accessTimes, j)
             /\ Replaced(victim, k)]_vars

\* C8: a new key set into a full FIFO cache evicts the entry inserted
\* earliest, whatever get/has/touch calls came in between
C8_FIFOEvictsEarliest ==
    [][\A k \in Keys :
         (cache.strategy = "fifo" /\ SetsNewKeyIntoFull(k)) =>
         (Len(ghostOrder) > 0 /\ Replaced(ghostOrder[1], k))]_vars

\* A went in first and was read or touched since; C then replaced it, not B
C8_Witness ==
    /\ cache.strategy = "fifo" /\ cache.maxSize = 2
    /\ ret.op = "set" /\ ret.key = "C"
    /\ cache.stats.evictions = 1 /\ calls = 4
    /\ MapKeys(cache.data) = {"B", "C"}

\* C9: a new key set into a full LFU cache evicts an entry of minimum
\* accessCount, the first-inserted one among those tied at the minimum
C9_LFUEvictsLeastUsedFirstInserted ==
    [][\A k \in Keys :
         (cache.strategy = "lfu" /\ SetsNewKeyIntoFull(k)) =>
         \E i \in 1..Len(ghostOrder) :
             /\ \A j \in MapKeys(cache.data) :
                    MapGet(cache.accessCounts, ghostOrder[i]) <= MapGet(cache.accessCounts, j)
             /\ \A h \in 1..(i - 1) :
                    MapGet(cache.accessCounts, ghostOrder[h])
                        > MapGet(cache.accessCounts, ghostOrder[i])
             /\ Replaced(ghostOrder[i], k)]_vars

\* A went in first, was read, and so B (never read) was the one evicted
C9_Witness ==
    /\ cache.strategy = "lfu" /\ cache.maxSize = 2
    /\ ret.op = "set" /\ ret.key = "C"
    /\ cache.stats.evictions = 1
    /\ MapKeys(cache.data) = {"A", "C"}
    /\ MapGet(cache.accessCounts, "A") > 0

\* C10: has() on a live key changes no lastAccessedAt and no accessCount,
\* and so not the key the next LRU or LFU eviction picks
C10_HasLeavesMetadata ==
    [][(ret'.op = "has" /\ ret'.val = TRUE) =>
         /\ cache'.accessTimes = cache.accessTimes
         /\ cache'.accessCounts = cache.accessCounts
         /\ findLRUKey(cache', now') = findLRUKey(cache, now)
         /\ findLFUKey(cache') = findLFUKey(cache)]_vars

\* has(k) answered true for the very key LRU would evict next, and k still is
\* that key although another entry was accessed earlier than this call
C10_Witness ==
    /\ ret.op = "has" /\ ret.val = TRUE
    /\ Len(cache.data) = 2
    /\ findLRUKey(cache, now) = ret.key
    /\ MapGet(cache.accessTimes, ret.key) < now

\* C11: set(k, v) followed by get(k) before the entry's expiry, with no
\* delete and no eviction of k in between, returns v
C11_RoundTrip ==
    [][\A k \in DOMAIN written :
         ( /\ ret'.op = "get" /\ ret'.key = k
           /\ written[k].set
           /\ now < written[k].expiresAt )
         => ret'.val = written[k].value]_vars

\* get returned v2, the value of the second set of its key, which replaced
\* the value v1 of the first
C11_Witness ==
    /\ ret.op = "get" /\ ret.val = "v2"
    /\ ret.key \in DOMAIN written
    /\ written[ret.key].set /\ written[ret.key].value = "v2"
    /\ written[ret.key].sets = 2
    /\ calls = 3

\* C12: set on a key that is present evicts nothing: every key present before
\* the call is present after it and the evictions counter is unchanged
C12_UpdateNeverEvicts ==
    [][\A k \in Keys :
         (ret'.op = "set" /\ ret'.key = k /\ MapHas(cache.data, k)) =>
         /\ \A j \in MapKeys(cache.data) : MapHas(cache'.data, j)
         /\ cache'.stats.evictions = cache.stats.evictions]_vars

\* the cache is at capacity with two keys, nothing was ever removed, and the
\* last call set again the key that had entered first
C12_Witness ==
    /\ ret.op = "set"
    /\ cache.maxSize = 2 /\ size(cache) = 2
    /\ Len(ghostOrder) = 2 /\ ret.key = ghostOrder[1]
    /\ cache.stats.deletes = 0 /\ cache.stats.evictions = 0

-----------------------------------------------------------------------------
(* Properties of the RateLimiter, checked under SpecRL *)

\* the admissions of instance i whose timestamps lie in the rolling window
\* of windowSizeMs milliseconds that ends at instant t: (t - windowSizeMs, t]
AdmittedInWindow(i, t) ==
    {h \in 1..Len(admitted[i]) :
        admitted[i][h] > t - inst[i].windowSizeMs /\ admitted[i][h] <= t}

\* C2: whatever the interleaving of waitForToken callers, no rolling window
\* of windowSizeMs milliseconds, (t - windowSizeMs, t], holds more than
\* requestsPerWindow admissions (the admissions of any such window lie in the
\* window that ends at the last of them, so those windows are the ones checked)
C2_RateBound ==
    \A i \in 1..Len(inst) : \A j \in 1..Len(admitted[i]) :
        Cardinality(AdmittedInWindow(i, admitted[i][j])) <= inst[i].requestsPerMinute

\* the window, not the bucket, turned a caller away, and the limiter has
\* since admitted more callers than one window allows
C2_Witness ==
    \E i \in 1..Len(inst) :
        /\ inst[i].requestsPerMinute < inst[i].burstLimit
        /\ inst[i].stats.rejectedRequests > 0
        /\ Len(admitted[i]) > inst[i].requestsPerMinute

\* C6: built with burstLimit = 3, requestsPerWindow = 3, windowSizeMs = 1000,
\* the limiter admits the first three requests at once and gives the fourth
\* a wait that is > 0 and <= 1000 ms
C6_BurstScenario ==
    made[1].options = BurstOptions =>
        \A c \in Callers :
            /\ ( /\ inst[1].stats.totalRequests < 3
                 /\ inst[1].stats.rejectedRequests = 0 ) => pc[c] = "idle"
            /\ ( /\ inst[1].stats.totalRequests = 3
                 /\ inst[1].stats.rejectedRequests = 1
                 /\ pc[c] = "waiting" ) => (waited[c] > 0 /\ waited[c] <= 1000)

\* C18: waiters have no priority.  Every attempt, first or retry, is decided
\* by the bucket and the window at its own instant alone: it is admitted when
\* there is room and rejected when there is none, whoever else is waiting and
\* however long.  So a later arrival can be admitted ahead of a waiting
\* caller, whose retry can then be rejected again (C18_Witness).
C18_NoPriorityForWaiters ==
    [][\A i \in 1..Len(inst) :
         LET l    == prepared(inst[i], now)
             room == l.tokens > 0 /\ Len(l.requests) < l.requestsPerMinute
         IN  /\ inst'[i].stats.totalRequests > inst[i].stats.totalRequests => room
             /\ inst'[i].stats.rejectedRequests > inst[i].stats.rejectedRequests
                    => ~room]_vars

\* caller 1 is waiting and its retry was rejected again, at the very instant
\* at which caller 2, in a call that was never rejected, got the last admission
C18_Witness ==
    /\ pc[1] = "waiting" /\ rejects[1] >= 2
    /\ pc[2] = "idle" /\ rejects[2] = 0
    /\ Len(admitted[1]) > 0
    /\ admitted[1][Len(admitted[1])] = wakeAt[1] - waited[1]

-----------------------------------------------------------------------------
(* Properties of the GlobalRateLimiter, checked under SpecReg *)

\* C5: while nothing is removed from the registry, one instance at most is
\* ever built for a key, and every caller that asked for the key holds it
C5_OneLimiterPerKey ==
    removals = 0 =>
        /\ \A i, j \in 1..Len(made) : made[i].key = made[j].key => i = j
        /\ \A c \in Callers :
               on[c] # 0 => MapGet(limiters, made[on[c]].key) = on[c]

\* two callers hold the same instance and it has counted both their requests
C5_Witness ==
    /\ removals = 0
    /\ on[1] # 0 /\ on[1] = on[2]
    /\ inst[on[1]].stats.totalRequests + inst[on[1]].stats.rejectedRequests >= 2

-----------------------------------------------------------------------------
(* Properties of APIRateLimiter.makeRequest, checked under SpecAPI *)

\* C13: after a 429 answer with a retry hint of 2 seconds the request is
\* issued again when the 2000 ms of the hint have elapsed, whatever the state
\* of bucket and window: the caller sleeps until 2000 ms after the answer and
\* is given no admission wait on top of the hint
C13_RetryAfterHintOnly ==
    \A c \in Callers :
        /\ pc[c] = "backoff" => wakeAt[c] = req[c].respAt + 2000
        /\ pc[c] = "waiting" => req[c].after # "hint"

\* C14: on a 429 answer with a retry hint the wait is exactly the hint and
\* rejectedRequests grows by one; on a 429 answer without a hint the caller
\* waits for the base estimate, the value of calculateWaitTime, before it
\* tries again
C14_HintOrBaseEstimate ==
    [][\A c \in Callers :
         (req'[c].answers = req[c].answers + 1 /\ req'[c].last.status = 429) =>
         IF req'[c].last.retryAfter # ""
         THEN /\ pc'[c] = "backoff"
              /\ wakeAt'[c] = now + 2000
              /\ inst'[1].stats.rejectedRequests = inst[1].stats.rejectedRequests + 1
         ELSE /\ pc'[c] = "waiting"
              /\ wakeAt'[c] = now + calculateWaitTime(prepared(inst[1], now), now)]_vars

\* C17: makeRequest never hands a 429 to its caller, returned or thrown: a
\* 429 answer always leaves the call pending, on its way to the next attempt;
\* every other thrown error ends the call with that very error and without a
\* further attempt
C17_OnlyNonThrottlingFailuresPropagate ==
    \A c \in Callers :
        LET r == req[c]
        IN  /\ r.out.kind = "returned" =>
                   (~r.out.val.thrown /\ r.out.val.status # 429)
            /\ r.out.kind = "thrown" =>
                   (r.out.val.thrown /\ r.out.val.status # 429)
            /\ r.last.status = 429 =>
                   (r.out.kind = "none" /\ pc[c] \in {"backoff", "waiting", "calling"})
            /\ (r.last.thrown /\ r.last.status # 429) =>
                   (r.out = [kind |-> "thrown", val |-> r.last] /\ pc[c] = "idle")
            /\ r.out.kind # "none" => r.sent = r.answers

\* a call was answered by a thrown 429, tried again, and then ended by
\* throwing the server error of its second attempt
C17_Witness ==
    \E c \in Callers :
        /\ req[c].out.kind = "thrown" /\ req[c].out.val.status = 500
        /\ req[c].answers = 2 /\ req[c].sent = 2
        /\ inst[1].stats.rejectedRequests > 0

-----------------------------------------------------------------------------
(* Properties of the constructors, checked under SpecNew *)

\* C15: constructing a Cache with an invalid maxSize (zero or negative), ttl
\* or strategy, or a RateLimiter with an invalid requestsPerWindow or
\* burstLimit, raises a configuration error
C15_ConstructionFailsFast ==
    /\ ( /\ ret.op = "new Cache"
         /\ \/ ret.key.maxSize <= 0
            \/ ret.key.ttl <= 0
            \/ ret.key.strategy \notin Strategies )
       => ret.val = "ConfigurationError"
    /\ ( /\ ret.op = "new RateLimiter"
         /\ \/ ret.key.requestsPerMinute <= 0
            \/ ret.key.burstLimit <= 0 )
       => ret.val = "ConfigurationError"

-----------------------------------------------------------------------------
(* Registry misuse, checked under SpecMisuse *)

\* C16: a per-key operation on a key that is not registered, with no
\* configuration supplied, raises an explicit error: no limiter is ever built
\* from the built-in defaults alone, and getStatus of such a key does not
\* return null
C16_UnregisteredKeyRaises ==
    /\ \A i \in 1..Len(made) : made[i].options # NoOptions
    /\ (ret.op = "getStatus" /\ ~MapHas(limiters, ret.key))
           => ret.val = "ProgrammerMisuse"

-----------------------------------------------------------------------------
(* Properties of FigmaService.getFile, checked under SpecGov *)

\* the keys whose entry is new or changed after the step
Populated ==
    {k \in MapKeys(cache'.data) :
        ~MapHas(cache.data, k) \/ MapGet(cache'.data, k) # MapGet(cache.data, k)}

\* C19: a getFile call that finds a live entry returns the cached value
\* without an admission and without a transport call; a request goes to the
\* transport only in a step in which the limiter grants its caller one
\* admission; and the cache is populated only by a call whose transport
\* call succeeded, under the key of that call
C19_PermitBeforeTransport ==
    [][/\ \A c \in Callers :
            LET k    == req'[c].key
                live == MapHas(cache.data, k) /\ now <= MapGet(cache.data, k).expiresAt
            IN  /\ (req'[c].begun = req[c].begun + 1 /\ live) =>
                       /\ req'[c].out.kind = "returned"
                       /\ req'[c].out.val = MapGet(cache.data, k).value
                       /\ pc'[c] = "idle"
                       /\ inst' = inst
                       /\ req'[c].sent = req[c].sent
                /\ req'[c].sent # req[c].sent =>
                       /\ req'[c].sent = req[c].sent + 1
                       /\ pc'[c] = "calling"
                       /\ inst'[1].stats.totalRequests = inst[1].stats.totalRequests + 1
                       /\ \A d \in Callers \ {c} : req'[d].sent = req[d].sent
       /\ \A k \in Populated :
            \E c \in Callers :
                /\ pc[c] = "calling" /\ req[c].key = k
                /\ req'[c].out.kind = "returned"
                /\ MapGet(cache'.data, k).value = req'[c].out.val]_vars

\* a caller was first rejected, then admitted, its request answered and
\* cached; the other caller then got the file from the cache, with no
\* admission and no request of its own
C19_Witness ==
    /\ rejects[1] > 0 /\ req[1].sent = 1 /\ req[1].out.kind = "returned"
    /\ req[2].begun = 1 /\ req[2].sent = 0 /\ req[2].permits = 0
    /\ req[2].out.kind = "returned" /\ req[2].key = req[1].key
    /\ pc[1] = "idle" /\ pc[2] = "idle"

-----------------------------------------------------------------------------
(* Liveness of waitForToken, checked under SpecLive *)

\* C20: with finitely many calls on a limiter whose burstLimit and
\* requestsPerWindow are at least 1, and a clock that keeps advancing, every
\* pending waitForToken call is eventually admitted; a rejection is only
\* ever a wait, never an error
C20_EventualAdmission ==
    \A c \in Callers : (pc[c] = "waiting") ~> (pc[c] = "idle")

\* a call that was rejected twice, on arrival and on its first retry, has
\* been admitted
C20_Witness ==
    \E c \in Callers : rejects[c] >= 2 /\ pc[c] = "idle"

-----------------------------------------------------------------------------
(* Statistics of a limiter *)

\* C28: in every state totalRequests is the number of admissions,
\* rejectedRequests the number of waits scheduled and averageWaitTime the
\* arithmetic mean of the waits scheduled (0 when there was none)
C28_Statistics ==
    \A i \in 1..Len(inst) :
        LET st == inst[i].stats
        IN  /\ st.totalRequests = Len(admitted[i])
            /\ st.rejectedRequests = waits[i].count
            /\ st.averageWaitTime.num * waits[i].count
                   = waits[i].sum * st.averageWaitTime.den
            /\ waits[i].count = 0 => st.averageWaitTime.num = 0

\* both callers are waiting, for different times, after admissions were
\* granted: the mean lies strictly between the two waits
C28_Witness ==
    /\ Len(admitted[1]) > 0
    /\ waits[1].count >= 2
    /\ pc[1] = "waiting" /\ pc[2] = "waiting"
    /\ waited[1] # waited[2]
    /\ inst[1].stats.averageWaitTime.num
           > Min(waited[1], waited[2]) * inst[1].stats.averageWaitTime.den
    /\ inst[1].stats.averageWaitTime.num
           < Max(waited[1], waited[2]) * inst[1].stats.averageWaitTime.den

-----------------------------------------------------------------------------
(* Admission *)

\* an attempt has run on instance i in this step: it counted an admission
\* or a rejection
Attempted(i) == inst'[i].stats # inst[i].stats

\* C24: an attempt is admitted if and only if, after refill and prune, the
\* bucket holds a token and the window holds fewer than requestsPerMinute
\* timestamps; the admission takes exactly one token and appends exactly one
\* timestamp, the instant of the attempt, in the same step as the check
C24_AdmissionRule ==
    [][\A i \in 1..Len(inst) : Attempted(i) =>
         LET p    == cleanOldRequests(refillTokens(inst[i], now), now)
             rule == p.tokens > 0 /\ Len(p.requests) < p.requestsPerMinute
         IN  /\ rule <=> inst'[i].stats.totalRequests = inst[i].stats.totalRequests + 1
             /\ rule <=> Len(admitted'[i]) = Len(admitted[i]) + 1
             /\ ~rule <=> \E c \in Callers :
                              pc'[c] = "waiting" /\ wakeAt'[c] # wakeAt[c]
             /\ rule => /\ inst'[i].tokens = p.tokens - 1
                        /\ inst'[i].requests = Append(p.requests, now)]_vars

\* a caller was turned away by the window alone, with a token left in the
\* bucket, after the window took as many admissions as it allows
C24_Witness ==
    /\ \E c \in Callers : pc[c] = "waiting" /\ wakeAt[c] > now
    /\ inst[1].tokens > 0
    /\ Len(inst[1].requests) = inst[1].requestsPerMinute
    /\ Len(admitted[1]) = inst[1].requestsPerMinute
    /\ inst[1].stats.rejectedRequests = 1

-----------------------------------------------------------------------------
(* Rejection *)

\* C25: a rejected attempt schedules a wait of max(time until the next
\* token, time until the oldest window entry expires, 100 ms), which is at
\* least 100 ms, and changes only the statistics: tokens, lastRefill and the
\* window stay as refill and prune left them
C25_RejectionWait ==
    [][\A i \in 1..Len(inst) :
         ( /\ Attempted(i)
           /\ inst'[i].stats.rejectedRequests = inst[i].stats.rejectedRequests + 1 )
         =>
         LET p == cleanOldRequests(refillTokens(inst[i], now), now)
             untilToken == IF p.tokens <= 0
                           THEN p.windowSizeMs \div p.burstLimit ELSE 0
             untilSlot  == IF Len(p.requests) >= p.requestsPerMinute
                           THEN p.requests[1] + p.windowSizeMs - now ELSE 0
             wait == Max(Max(untilToken, untilSlot), 100)
         IN  /\ wait >= 100
             /\ \E c \in Callers :
                   /\ pc'[c] = "waiting" /\ wakeAt'[c] # wakeAt[c]
                   /\ waited'[c] = wait
                   /\ wakeAt'[c] = now + wait
             /\ inst'[i].tokens = p.tokens
             /\ inst'[i].lastRefill = p.lastRefill
             /\ inst'[i].requests = p.requests
             /\ inst'[i].stats.totalRequests = inst[i].stats.totalRequests]_vars

\* three rejections were seen, one for each term of the maximum: a caller
\* waits the 100 ms floor for a window slot that is 50 ms away, after the
\* limiter scheduled a longer wait for another caller
C25_Witness ==
    /\ \E c \in Callers : pc[c] = "waiting" /\ waited[c] = 100
    /\ waits[1].count >= 2
    /\ waits[1].sum > 100 * waits[1].count

-----------------------------------------------------------------------------
(* Refill *)

\* C23: when the refill of an attempt adds k > 0 tokens, lastRefill advances
\* by the time k tokens account for, k * windowSizeMs / burstLimit, and not
\* to the current time
C23_DriftFreeRefill ==
    [][\A i \in 1..Len(inst) : Attempted(i) =>
         LET l == inst[i]
             k == ((now - l.lastRefill) * l.burstLimit) \div l.windowSizeMs
         IN  k > 0 =>
               inst'[i].lastRefill * l.burstLimit
                   = l.lastRefill * l.burstLimit + k * l.windowSizeMs]_vars

\* C26: when at least windowSizeMs has passed since the last admission, the
\* next attempt finds tokens = burstLimit after its refill
C26_RefillCap ==
    [][\A i \in 1..Len(inst) :
         ( /\ Attempted(i)
           /\ Len(admitted[i]) > 0
           /\ now - admitted[i][Len(admitted[i])] >= inst[i].windowSizeMs )
         => refillTokens(inst[i], now).tokens = inst[i].burstLimit]_vars

-----------------------------------------------------------------------------
(* A registered limiter under all its operations *)

OpsKeys == {"files"}
OpsClock == {0, 30000, 60000}

\* the options getLimiter is called with
OpsOptions ==
    { [requestsPerMinute |-> 2, burstLimit |-> 3, windowSizeMs |-> 0],
      [requestsPerMinute |-> 0, burstLimit |-> 2, windowSizeMs |-> 0] }

\* the options updateLimits is called with: a lower and a higher burstLimit,
\* a requestsPerMinute alone, and both
LimitUpdates ==
    { [burstLimit |-> 1],
      [burstLimit |-> 4],
      [requestsPerMinute |-> 1],
      [requestsPerMinute |-> 3, burstLimit |-> 2] }

\* a call that is counted ...
OpsCounted == calls' = calls + 1 /\ calls' <= MaxOpsCalls

\* ... and recorded as the n-th call of the run
OpsCall(op, key, val) ==
    /\ ret' = [op |-> op, key |-> key, val |-> val, n |-> calls + 1]
    /\ OpsCounted

\* what a call on the limiter of key leaves alone
OpsFrame ==
    UNCHANGED <<now, made, limiters, pc, on, wakeAt, waited, admitted, waits,
                removals, rejects, req, cache, ghostOrder, written>>

\* registry.getLimiter(key, options), recorded with the options given
OpsGetLimiter(c, key, o) ==
    /\ GetLimiterCall(c, key, o)
    /\ OpsCall("getLimiter", key, o)

\* registry.getLimiter(key).canMakeRequestNow()
CanMakeRequestNow(key) ==
    /\ MapHas(limiters, key)
    /\ LET i == MapGet(limiters, key)
       IN  /\ inst' = [inst EXCEPT ![i] = canMakeRequestNowState(inst[i], now)]
           /\ OpsCall("canMakeRequestNow", key, canMakeRequestNowValue(inst[i], now))
    /\ OpsFrame

\* registry.getStatus(key)
OpsGetStatus(key) ==
    /\ IF MapHas(limiters, key)
       THEN LET i == MapGet(limiters, key)
                l == prepared(inst[i], now)
            IN  /\ inst' = [inst EXCEPT ![i] = l]
                /\ OpsCall("getStatus", key, getStatus(l, now))
       ELSE /\ inst' = inst
            /\ OpsCall("getStatus", key, Null)
    /\ OpsFrame

\* registry.getStats(key): limiter ? limiter.getStats() : null
GetStats(key) ==
    /\ IF MapHas(limiters, key)
       THEN LET i == MapGet(limiters, key)
                l == prepared(inst[i], now)
            IN  /\ inst' = [inst EXCEPT ![i] = l]
                /\ OpsCall("getStats", key, getStats(l, now))
       ELSE /\ inst' = inst
            /\ OpsCall("getStats", key, Null)
    /\ OpsFrame

\* registry.reset(key): if (limiter) limiter.reset()
Reset(key) ==
    /\ inst' = IF MapHas(limiters, key)
               THEN [inst EXCEPT ![MapGet(limiters, key)] = reset(@, now)]
               ELSE inst
    /\ OpsCall("reset", key, Null)
    /\ OpsFrame

\* registry.getLimiter(key).updateLimits(options)
UpdateLimits(key, o) ==
    /\ MapHas(limiters, key)
    /\ inst' = [inst EXCEPT ![MapGet(limiters, key)] = updateLimits(@, o)]
    /\ OpsCall("updateLimits", key, o)
    /\ OpsFrame

TickOps ==
    /\ \E t \in OpsClock : t > now /\ now' = t
    /\ UNCHANGED <<rlVars, cacheVars>>

NextOps ==
    \/ \E c \in Callers, key \in OpsKeys, o \in OpsOptions : OpsGetLimiter(c, key, o)
    \/ \E c \in Callers : WaitForToken(c) /\ OpsCounted
    \/ \E c \in Callers : Retry(c)
    \/ \E key \in OpsKeys : CanMakeRequestNow(key)
    \/ \E key \in OpsKeys : OpsGetStatus(key)
    \/ \E key \in OpsKeys : GetStats(key)
    \/ \E key \in OpsKeys : Reset(key)
    \/ \E key \in OpsKeys, o \in LimitUpdates : UpdateLimits(key, o)
    \/ TickOps

SpecOps == InitReg /\ [][NextOps]_vars

\* the step is a recorded call of op
Called(op) == ret' # ret /\ ret'.op = op

\* the limiter configuration
Config(l) == <<l.requestsPerMinute, l.burstLimit, l.windowSizeMs>>

\* C21: only updateLimits changes the configuration of a limiter: every
\* other step (waitForToken and its retries, canMakeRequestNow, getStatus,
\* getStats, reset, getLimiter with any options) leaves requestsPerMinute,
\* burstLimit and windowSizeMs of every existing limiter as they were, and
\* getLimiter for a registered key returns the registered limiter
C21_ConfigOnlyByUpdateLimits ==
    [][/\ ~Called("updateLimits") =>
            \A i \in 1..Len(inst) : Config(inst'[i]) = Config(inst[i])
       /\ (Called("getLimiter") /\ MapHas(limiters, ret'.key)) =>
            /\ inst' = inst /\ limiters' = limiters
            /\ \E c \in Callers : on'[c] = MapGet(limiters, ret'.key)]_vars

\* getLimiter was called for a registered key with options other than those
\* the limiter was built from, after the limiter had admitted, rejected and
\* been probed; the limiter still has the configuration it was built with
C21_Witness ==
    /\ ret.op = "getLimiter" /\ MapHas(limiters, ret.key)
    /\ LET i == MapGet(limiters, ret.key)
       IN  /\ ret.val # made[i].options
           /\ ret.val.burstLimit # inst[i].burstLimit
           /\ inst[i].burstLimit = made[i].options.burstLimit
           /\ inst[i].stats.totalRequests > 0

C27_NonMutatingProbe ==
    [][\A key \in OpsKeys :
         ( /\ Called("canMakeRequestNow") \/ Called("getStatus")
           /\ ret'.key = key /\ MapHas(limiters, key) )
         =>
         LET i == MapGet(limiters, key)
             l == inst[i]
             p == cleanOldRequests(refillTokens(l, now), now)
             attempt == attemptState(l, now)
             answer == IF ret'.op = "getStatus" THEN ret'.val.canMakeRequest
                                               ELSE ret'.val
         IN  /\ inst'[i] = p
             /\ inst'[i].tokens >= l.tokens
             /\ Len(inst'[i].requests) <= Len(l.requests)
             /\ inst'[i].stats = l.stats
             /\ admitted' = admitted /\ waits' = waits
             /\ answer <=> attempt.stats.totalRequests = l.stats.totalRequests + 1
             /\ \A j \in 1..Len(inst) : j # i => inst'[j] = inst[j]]_vars

\* a probe answered false for a limiter whose window is full although its
\* bucket holds a token, and took nothing
C27_Witness ==
    /\ ret.op \in {"canMakeRequestNow", "getStatus"}
    /\ MapHas(limiters, ret.key)
    /\ LET l == inst[MapGet(limiters, ret.key)]
       IN  /\ (IF ret.op = "getStatus" THEN ret.val.canMakeRequest ELSE ret.val) = FALSE
           /\ l.tokens > 0
           /\ Len(l.requests) = l.requestsPerMinute
           /\ l.stats.totalRequests = Len(l.requests)

\* C29: updateLimits with a burstLimit below the tokens sets the tokens to
\* the new burstLimit; with a burstLimit that is not below them it leaves the
\* tokens unchanged; in both cases, and without a burstLimit, the window,
\* lastRefill and the statistics are unchanged
C29_UpdateLimits ==
    [][\A key \in OpsKeys :
         (Called("updateLimits") /\ ret'.key = key) =>
         LET i == MapGet(limiters, key)
             l == inst[i]
             o == ret'.val
         IN  /\ "burstLimit" \in DOMAIN o =>
                   /\ inst'[i].burstLimit = o.burstLimit
                   /\ o.burstLimit < l.tokens => inst'[i].tokens = o.burstLimit
                   /\ o.burstLimit >= l.tokens => inst'[i].tokens = l.tokens
             /\ "burstLimit" \notin DOMAIN o =>
                   /\ inst'[i].burstLimit = l.burstLimit
                   /\ inst'[i].tokens = l.tokens
             /\ inst'[i].requestsPerMinute =
                   IF "requestsPerMinute" \in DOMAIN o
                   THEN o.requestsPerMinute ELSE l.requestsPerMinute
             /\ inst'[i].requests = l.requests
             /\ inst'[i].lastRefill = l.lastRefill
             /\ inst'[i].stats = l.stats
             /\ inst'[i].windowSizeMs = l.windowSizeMs]_vars

\* burstLimit was raised above the limit the limiter was built with while
\* the bucket held fewer tokens than the old limit, because an earlier
\* updateLimits had lowered them: no admission was made and no time passed,
\* and the tokens are still those the lowering left
C29_Witness ==
    /\ ret.op = "updateLimits" /\ "burstLimit" \in DOMAIN ret.val
    /\ now = 0
    /\ LET i == MapGet(limiters, ret.key)
       IN  /\ inst[i].burstLimit = ret.val.burstLimit
           /\ inst[i].burstLimit > made[i].options.burstLimit
           /\ inst[i].tokens < made[i].options.burstLimit
           /\ inst[i].stats.totalRequests = 0

-----------------------------------------------------------------------------
(* The sweep of the cache *)

\* C30: after cleanup() at instant t no entry with expiresAt < t remains,
\* every entry with expiresAt >= t is present with its value and metadata
\* unchanged, and every removal is a delete(): the deletes counter grows by
\* the number of entries removed and the evictions counter is unchanged
C30_ActiveSweep ==
    [][ret'.op = "cleanup" =>
         LET t == now
             gone == {k \in MapKeys(cache.data) : MapGet(cache.data, k).expiresAt < t}
             kept == MapKeys(cache.data) \ gone
         IN  /\ MapKeys(cache'.data) = kept
             /\ \A k \in kept :
                   /\ MapGet(cache'.data, k) = MapGet(cache.data, k)
                   /\ MapGet(cache'.accessTimes, k) = MapGet(cache.accessTimes, k)
                   /\ MapGet(cache'.accessCounts, k) = MapGet(cache.accessCounts, k)
             /\ MapKeys(cache'.accessTimes) = kept
             /\ MapKeys(cache'.accessCounts) = kept
             /\ cache'.insertionOrder =
                   SelectSeq(cache.insertionOrder, LAMBDA k : k \in kept)
             /\ cache'.stats.deletes = cache.stats.deletes + Cardinality(gone)
             /\ cache'.stats.evictions = cache.stats.evictions]_vars

\* a sweep removed an entry and left the entry that expires at the very
\* instant of the sweep
C30_Witness ==
    /\ ret.op = "cleanup"
    /\ cache.stats.deletes = 1
    /\ \E k \in MapKeys(cache.data) : MapGet(cache.data, k).expiresAt = now

\* C31: after any sequence of set (with or without a ttl of its own), touch
\* (with or without one) and setTTL calls, every stored entry expires after
\* the instant it was created: expiresAt > createdAt.
C31_ExpiryAfterCreation ==
    \A i \in 1..Len(cache.data) :
        cache.data[i][2].expiresAt > cache.data[i][2].createdAt

\* C32: after any sequence of set, get, has, touch, delete, clear, cleanup,
\* evict and setMaxSize calls, data, accessTimes and accessCounts have the
\* same keys and insertionOrder lists exactly those keys, each once.
C32_BookkeepingConsistency ==
    /\ MapKeys(cache.accessTimes) = MapKeys(cache.data)
    /\ MapKeys(cache.accessCounts) = MapKeys(cache.data)
    /\ {cache.insertionOrder[i] : i \in 1..Len(cache.insertionOrder)}
           = MapKeys(cache.data)
    /\ Len(cache.insertionOrder) = Cardinality(MapKeys(cache.data))
    /\ Len(cache.data) = Cardinality(MapKeys(cache.data))

\* setMaxSize returned after its loop evicted one of two entries
C32_Witness ==
    /\ ret.op = "setMaxSize" /\ ret.val = Null
    /\ cache.stats.evictions = 1
    /\ Len(cache.data) = 1
    /\ cache.maxSize = 1

\* C33: setMaxSize(n) terminates with size() <= n for every cache state,
\* strategy and new maximum: each iteration of its loop removes an entry, and
\* once it has returned at most n entries are stored.
C33_SetMaxSizeShrinks ==
    /\ Resizing => Len(evict(cache, now).data) < Len(cache.data)
    /\ ret.op = "setMaxSize" /\ ret.val = Null
           => Len(cache.data) <= cache.maxSize

\* C34: touch(key) on an entry whose expiry has passed but which is still
\* stored returns false, and a get(key) right after it does not return the
\* value.
C34_TouchRespectsExpiry ==
    [][(/\ calls' = calls + 1 /\ ret'.op = "touch"
        /\ MapHas(cache.data, ret'.key)
        /\ isExpired(MapGet(cache.data, ret'.key), now))
          => /\ ret'.val = FALSE
             /\ getValue(cache', ret'.key, now') = Null]_vars

\* C35: the successRate that getStats() reports lies between 0 and 100
\* whatever the interleaving of callers, callers rejected more than once
\* included.
C35_SuccessRateRange ==
    \A i \in 1..Len(inst) :
        LET successRate == getStats(prepared(inst[i], now), now).successRate
        IN  /\ 0 <= successRate.num
            /\ successRate.num <= 100 * successRate.den

-----------------------------------------------------------------------------
(* One retry after the computed wait *)

\* limiters whose token interval windowSizeMs / burstLimit is a whole number
\* of milliseconds (8: 7500) and is not (7: 8571.43)
RetryOptions ==
    { [requestsPerMinute |-> 0, burstLimit |-> 7, windowSizeMs |-> 0],
      [requestsPerMinute |-> 0, burstLimit |-> 8, windowSizeMs |-> 0] }

\* the instants of Date.now() at which calls are made and timers fire
RetryClock == {0, 7500, 8571, 8572, 15000, 17142, 17143}

\* a limiter whose whole burst was admitted at instant 0; admitted counts
\* from here on
InitRetry ==
    /\ now = 0
    /\ \E o \in RetryOptions :
          /\ inst = <<AfterAdmissions(RateLimiterNew(o, 0), o.burstLimit, 0)>>
          /\ made = <<[key |-> Null, options |-> o]>>
    /\ limiters = << >>
    /\ on = [c \in Callers |-> 1]
    /\ admitted = << << >> >>
    /\ waits = <<NoWaits>>
    /\ removals = 0
    /\ IdleCallers
    /\ NoCache

TickRetry ==
    /\ \E t \in RetryClock : t > now /\ now' = t
    /\ UNCHANGED <<rlVars, cacheVars>>

NextRetry ==
    \/ \E c \in Callers : WaitForToken(c) /\ Uncounted
    \/ \E c \in Callers : Retry(c)
    \/ TickRetry

SpecRetry == InitRetry /\ [][NextRetry]_vars

\* C36: a caller that was rejected, and during whose wait no other caller
\* was admitted on the limiter, is admitted by its first retry, whatever the
\* burst limit (those that do not divide windowSizeMs included).
C36_SingleRetrySuffices ==
    [][\A c \in Callers :
          (/\ pc[c] = "waiting" /\ wakeAt'[c] # wakeAt[c]
           /\ rejects[c] = 1
           /\ \A j \in 1..Len(admitted[on[c]]) :
                  admitted[on[c]][j] <= wakeAt[c] - waited[c])
             => pc'[c] = "idle"]_vars

-----------------------------------------------------------------------------
(* Limiters whose window holds at least two bursts *)

\* 2 * burstLimit <= requestsPerMinute, with and without equality
DominatedOptions ==
    { [requestsPerMinute |-> 2, burstLimit |-> 1, windowSizeMs |-> 0],
      [requestsPerMinute |-> 3, burstLimit |-> 1, windowSizeMs |-> 0],
      [requestsPerMinute |-> 4, burstLimit |-> 2, windowSizeMs |-> 0] }

DominatedClock == {0, 1, 30000, 30001, 60000, 60001}

InitDominated ==
    /\ now = 0
    /\ \E o \in DominatedOptions :
          /\ inst = <<RateLimiterNew(o, 0)>>
          /\ made = <<[key |-> Null, options |-> o]>>
    /\ limiters = << >>
    /\ on = [c \in Callers |-> 1]
    /\ admitted = << << >> >>
    /\ waits = <<NoWaits>>
    /\ removals = 0
    /\ IdleCallers
    /\ NoCache

TickDominated ==
    /\ \E t \in DominatedClock : t > now /\ now' = t
    /\ UNCHANGED <<rlVars, cacheVars>>

NextDominated ==
    \/ \E c \in Callers : WaitForToken(c) /\ Uncounted
    \/ \E c \in Callers : Retry(c)
    \/ TickDominated

SpecDominated == InitDominated /\ [][NextDominated]_vars

\* the admissions of limiter i in the interval of windowSizeMs that starts
\* with its admission j
AdmittedFrom(i, j) ==
    Cardinality({h \in 1..Len(admitted[i]) :
        /\ admitted[i][j] <= admitted[i][h]
        /\ admitted[i][h] <= admitted[i][j] + inst[i].windowSizeMs})

RollingBound ==
    \A i \in 1..Len(inst) : \A j \in 1..Len(admitted[i]) :
        AdmittedFrom(i, j) <= 2 * inst[i].burstLimit

\* the sliding window of limiter l as a call at instant t finds it
InWindow(l, t) == Len(cleanOldRequests(l, t).requests)

\* an attempt on limiter i is rejected in this step
Rejected(i) == inst'[i].stats.rejectedRequests # inst[i].stats.rejectedRequests

\* C37 as stated: in any rolling interval of windowSizeMs at most
\* 2 * burstLimit calls are admitted, so whenever
\* 2 * burstLimit <= requestsPerMinute the sliding window never fills and
\* every rejection is due to the empty bucket alone.
C37_WindowNeverFills ==
    /\ [](RollingBound)
    /\ [](\A i \in 1..Len(inst) :
             InWindow(inst[i], now) < inst[i].requestsPerMinute)
    /\ [][\A i \in 1..Len(inst) :
             Rejected(i) => /\ prepared(inst[i], now).tokens <= 0
                            /\ InWindow(inst[i], now) < inst[i].requestsPerMinute]_vars

\* C37 as amended: in any rolling interval of windowSizeMs at most
\* 2 * burstLimit calls are admitted, so whenever
\* 2 * burstLimit <= requestsPerMinute every rejection finds the bucket
\* empty; the sliding window never fills when
\* 2 * burstLimit < requestsPerMinute, and holds at most requestsPerMinute
\* entries when the two are equal.
C37_TokenBucketDominates ==
    /\ [](RollingBound)
    /\ [](\A i \in 1..Len(inst) :
             /\ InWindow(inst[i], now) <= 2 * inst[i].burstLimit
             /\ 2 * inst[i].burstLimit < inst[i].requestsPerMinute
                    => InWindow(inst[i], now) < inst[i].requestsPerMinute)
    /\ [][\A i \in 1..Len(inst) :
             Rejected(i) => prepared(inst[i], now).tokens <= 0]_vars

\* a call was rejected while the window of a limiter with
\* requestsPerMinute = 2 * burstLimit held requestsPerMinute entries
C37_Witness ==
    /\ inst[1].requestsPerMinute = 2 * inst[1].burstLimit
    /\ InWindow(inst[1], now) = inst[1].requestsPerMinute
    /\ inst[1].stats.rejectedRequests > 0
    /\ \E c \in Callers : pc[c] = "waiting" /\ wakeAt[c] - waited[c] = now

\* caller c is between the miss of its getFile and the answer of the transport
InFlight(c) == pc[c] \in {"waiting", "calling"}

\* C38: two callers that ask for the same uncached file at the same time
\* both miss, each takes a permit of its own and each makes a transport call
\* of its own; every answer is written to the cache under the one key, so
\* the cache holds one entry for it, written by the call that completed last.
C38_NoMissCoalescing ==
    [][\A c \in Callers :
          /\ (/\ req'[c].begun = req[c].begun + 1
              /\ \E d \in Callers \ {c} : InFlight(d) /\ req[d].key = req'[c].key
              /\ ~MapHas(cache.data, req'[c].key))
                => /\ InFlight(c)'
                   /\ inst'[1].stats # inst[1].stats
                   /\ pc'[c] = "calling"
                         => /\ req'[c].permits = req[c].permits + 1
                            /\ req'[c].sent = req[c].sent + 1
                            /\ Len(admitted'[1]) = Len(admitted[1]) + 1
          /\ (/\ pc[c] = "calling" /\ pc'[c] = "idle"
              /\ req'[c].out.kind = "returned")
                => /\ Cardinality({i \in 1..Len(cache'.data) :
                                      cache'.data[i][1] = req[c].key}) = 1
                   /\ MapGet(cache'.data, req[c].key).value = req'[c].out.val
                   /\ MapGet(cache'.data, req[c].key).createdAt = now]_vars

\* both callers missed the same file, each sent its own request, and the
\* entry holds the answer of the second to complete
C38_Witness ==
    /\ req[1].key = req[2].key
    /\ \A c \in Callers : req[c].begun = 1 /\ req[c].sent = 1 /\ req[c].permits = 1
    /\ req[1].out.kind = "returned" /\ req[1].out.val = "v1"
    /\ req[2].out.kind = "returned" /\ req[2].out.val = "v2"
    /\ Len(cache.data) = 1
    /\ MapHas(cache.data, req[1].key)
    /\ MapGet(cache.data, req[1].key).value = "v2"
    /\ MapGet(cache.data, req[1].key).createdAt = 6000

\* C39: the retry hint that handleRateLimitResponse handles delays only the
\* caller that saw the 429: the step leaves the tokens, the refill instant
\* and the window of the limiter as they are and leaves every other caller
\* where it is, and while the hint runs the attempts of the other callers
\* are admitted whenever a token and a window slot are there.
C39_HintDelaysOneCaller ==
    [][\A c \in Callers :
          /\ (pc[c] = "calling" /\ pc'[c] = "backoff")
                => /\ inst'[1].tokens = inst[1].tokens
                   /\ inst'[1].lastRefill = inst[1].lastRefill
                   /\ inst'[1].requests = inst[1].requests
                   /\ wakeAt'[c] > now
                   /\ \A d \in Callers \ {c} :
                          pc'[d] = pc[d] /\ wakeAt'[d] = wakeAt[d]
          /\ \A d \in Callers \ {c} :
                (/\ pc[c] = "backoff" /\ now < wakeAt[c]
                 /\ pc[d] \in {"idle", "waiting"} /\ req'[d] # req[d])
                   => /\ pc'[c] = "backoff" /\ wakeAt'[c] = wakeAt[c]
                      /\ canMakeRequest(prepared(inst[1], now))
                            => pc'[d] = "calling"]_vars

\* one caller sleeps on its retry hint while the other, which called after
\* the 429 was seen, has been admitted and is at the transport
C39_Witness ==
    /\ pc[1] = "backoff" /\ now < wakeAt[1]
    /\ pc[2] = "calling"
    /\ req[2].permits = 1
    /\ inst[1].stats.rejectedRequests = 1
    /\ Len(admitted[1]) = 2

-----------------------------------------------------------------------------
(* Removal from the registry while callers wait *)

\* one key, limited to one request per window
SplitOptions == { [requestsPerMinute |-> 1, burstLimit |-> 2, windowSizeMs |-> 0] }

SplitClock == {0, 30000, 60000}

SplitCounted == calls' = calls + 1 /\ calls' <= MaxSplitCalls

TickSplit ==
    /\ \E t \in SplitClock : t > now /\ now' = t
    /\ UNCHANGED <<rlVars, cacheVars>>

NextSplit ==
    \/ \E c \in Callers, key \in OpsKeys, o \in SplitOptions :
           RegWaitForToken(c, key, o) /\ SplitCounted
    \/ \E c \in Callers : Retry(c)
    \/ \E key \in OpsKeys : RemoveLimiter(key) /\ SplitCounted
    \/ ClearRegistry /\ SplitCounted
    \/ TickSplit

SpecSplit == InitReg /\ [][NextSplit]_vars

\* the admissions on the instances made for key within the window that ends
\* at instant t
AdmittedForKey(key, t) ==
    LET Within(i) == {j \in 1..Len(admitted[i]) :
                         admitted[i][j] > t - inst[i].windowSizeMs}
    IN  Cardinality({ij \in (1..Len(inst)) \X (1..MaxAdmit) :
                        /\ made[ij[1]].key = key
                        /\ ij[2] \in Within(ij[1])})

\* C40: removeLimiter(key) and clear() take the limiter out of the registry
\* and nothing else: the instance lives on, a caller suspended in its
\* waitForToken retries on that instance, and the next
\* waitForToken(key) of the registry constructs a new instance with a full
\* bucket and an empty window.
C40_RemovalSplitsLimiters ==
    [][/\ removals' # removals
          => /\ Len(limiters') < Len(limiters)
             /\ inst' = inst /\ on' = on /\ pc' = pc /\ wakeAt' = wakeAt
       /\ \A c \in Callers :
             (pc[c] = "waiting" /\ wakeAt'[c] # wakeAt[c])
                => /\ on'[c] = on[c]
                   /\ limiters' = limiters
                   /\ Len(inst') = Len(inst)
                   /\ \A i \in 1..Len(inst) : i # on[c] => inst'[i] = inst[i]
                   /\ inst'[on[c]] = attemptState(inst[on[c]], now)
       /\ (Len(inst') > Len(inst) /\ removals > 0)
             => LET n == Len(inst')
                IN  /\ MapGet(limiters', made'[n].key) = n
                    /\ inst'[n] = attemptState(RateLimiterNew(made'[n].options, now), now)
                    /\ admitted'[n] = <<now>>
                    /\ \A i \in 1..Len(inst) : inst'[i] = inst[i]]_vars

\* two instances were made for one key; the caller suspended on the first
\* was admitted by its retry after the removal, the second admitted a call
\* in between: two admissions for the key within one window of one request
C40_Witness ==
    /\ Len(inst) = 2
    /\ made[1].key = made[2].key
    /\ removals = 1
    /\ admitted[1] = <<0, 60000>>
    /\ admitted[2] = <<30000>>
    /\ \E c \in Callers : on[c] = 1 /\ rejects[c] = 1 /\ pc[c] = "idle"
    /\ AdmittedForKey(made[1].key, now) > inst[1].requestsPerMinute

====
